---------------------------- MODULE Spec2Model ----------------------------
(***************************************************************************)
(* Live cyber-threat map front end: the threat worker (threatWorker.ts),   *)
(* the Dashboard orchestrator that drives it, the stream pause flag        *)
(* (StreamContext), and the two views that read the threat stream on the   *)
(* UI thread (DataPage, CountryAnalytics).                                 *)
(*                                                                         *)
(* Two threads are modelled: the UI thread and the worker.  They talk only *)
(* through two FIFO message queues (postMessage), ctrlQueue from the UI to *)
(* the worker and uiQueue from the worker to the UI.  Every event handler  *)
(* of the source runs to completion and is one action.                     *)
(*                                                                         *)
(* Beside the stream: the retried fetch of the malicious-IP reference data *)
(* (maliciousIPs.ts) with its callers, the legacy orchestrator             *)
(* (Deepcytes-LCTM-1 App.tsx), and the normalizers and severity mappers    *)
(* of threatWorker.ts, threatData.ts and attacksWorker.ts as functions.    *)
(***************************************************************************)
EXTENDS Integers, Sequences, FiniteSets, TLC

VARIABLES
    mounted,            \* App has rendered and run its effects
    isStreamPaused,     \* StreamContext state
    selectedSeverities, \* Dashboard state (the current render's value)
    handlerSeverities,  \* selectedSeverities as captured by the onmessage closure
    threatWorker,       \* threatWorkerRef.current is a Worker
    dashCleanup,        \* the Dashboard effect's last run returned a cleanup
    currentAttacks,     \* Dashboard state: attacks rendered on the map
    attackDetails,      \* Dashboard state: attack history
    ctrlQueue,          \* control messages posted to the worker, not yet handled
    uiQueue,            \* messages posted by the worker, not yet handled by the UI
    workerEventSource,  \* (self as any).eventSource: 0 (undefined) or a connection
    conns,              \* every EventSource constructed so far: [owner, state]
    dataES,             \* DataPage: the EventSource its cleanup will close, or 0
    dataThreats,        \* DataPage state: threats
    caES,               \* CountryAnalytics: the EventSource its cleanup will close, or 0
    caThreats,          \* CountryAnalytics state: threats
    netEvents,          \* number of network events delivered so far
    lastNet,            \* history: the last network event delivered to the worker
    userSteps,          \* number of user / harness inputs so far
    accepted,           \* history: every attack the Dashboard accepted, in order
    workersCreated,     \* history: number of Workers the Dashboard constructed
    controlLog,         \* history: every control message posted to the worker
    atPause,            \* history: the four lists as they were at the last pause
    fetchCall,          \* fetchMaliciousIPsWithRetry: the call of each caller
    ipState,            \* malicious-IP state of each caller (maliciousIPs, ips)
    legacyCurrentAttacks, \* legacy App state: currentAttacks
    legacyAttackDetails,  \* legacy App state: attackDetails
    legacyTimers,       \* legacy App: the setTimeout callbacks not yet run
    lastCall,           \* the last call of a pure function: name, input, output
    analysis,           \* IP-analysis state of Dashboard and of DataPage
    lookups,            \* the requests sent to /api/analyze-ip, with their answers
    ipClicks,           \* history: number of handleIPClick calls
    analysisFrom,       \* history: the lookups that wrote analysisData / analysisError
    activeTab,          \* DataPage state: activeTab
    news,               \* DataPage state: news
    newsFetch,          \* DataPage: the fetchNews call of the first render
    downloads,          \* the files downloadCSV has produced
    exportLog,          \* history: the clicks on "Download CSV"
    briefing,           \* BriefingCard state: briefing (null: {})
    briefingLoading,    \* BriefingCard state: loading
    briefingError,      \* BriefingCard state: error (null: {})
    briefingFetches     \* the requests sent to /api/briefing, with their answers

streamVars == <<mounted, isStreamPaused, selectedSeverities, handlerSeverities,
                threatWorker, dashCleanup, currentAttacks, attackDetails,
                ctrlQueue, uiQueue, workerEventSource, conns, dataES,
                dataThreats, caES, caThreats, netEvents, lastNet,
                userSteps, accepted, workersCreated, controlLog, atPause>>

fetchVars == <<fetchCall, ipState>>

legacyVars == <<legacyCurrentAttacks, legacyAttackDetails, legacyTimers>>

analysisVars == <<analysis, lookups, ipClicks, analysisFrom>>

exportVars == <<activeTab, news, newsFetch, downloads, exportLog>>

briefingVars == <<briefing, briefingLoading, briefingError, briefingFetches>>

uiVars == <<analysisVars, exportVars, briefingVars>>

\* Everything but the state of the threat stream.
nonStreamVars == <<fetchVars, legacyVars, lastCall, uiVars>>

vars == <<streamVars, nonStreamVars>>

---------------------------------------------------------------------------
(* Bounds of the model *)

MaxUserSteps == 2       \* pause toggles, selection changes, harness messages
MaxNetEvents == 2       \* network events (messages, errors) of the worker
MaxPageEvents == 2      \* network events (messages, errors) of the views
BulkSmall == 31         \* records of a small bulk message
BulkLarge == 5001       \* records of a large bulk message
MaxBulkEvents == 3      \* network messages of the bulk specification
MaxRetriesArg == 1      \* largest maxRetries of a direct call (0..MaxRetriesArg)
MaxLegacyEvents == 2    \* worker messages the legacy App handles
MaxHistoryEvents == 3   \* network messages of the history specification
MaxBatchLen == 2        \* records of a batch handed to a normalizer on its own
MaxCount == 7           \* largest "Attack Count" handed to the severity mapper

(* Program constants *)

DashboardMapCap == 30       \* updated.slice(-30)
DashboardHistoryCap == 500  \* updated.slice(-500)
DataPageCap == 1000         \* .slice(0, 1000)
CountryAnalyticsCap == 5000 \* .slice(-5000)
DefaultMaxRetries == 3      \* maxRetries: number = 3

---------------------------------------------------------------------------
(* Values *)

Min(a, b) == IF a <= b THEN a ELSE b

\* The last n elements of s: Array.prototype.slice(-n), n > 0.
SliceLast(s, n) == SubSeq(s, Len(s) - Min(Len(s), n) + 1, Len(s))

\* The first n elements of s: Array.prototype.slice(0, n).
SliceFirst(s, n) == SubSeq(s, 1, Min(Len(s), n))

\* enum AttackSeverity
AttackSeverity == {"LOW", "MEDIUM", "HIGH", "CRITICAL", "UNKNOWN"}

\* useState initial value of selectedSeverities
InitialSeverities == {"LOW", "MEDIUM", "HIGH", "CRITICAL"}

\* A JSON field that may be missing or null is a set of at most one value:
\* {} when it is missing or null, {v} when it holds v.

\* x || d for a string field: undefined, null and "" are falsy.
OrStr(m, d) == IF m = {} \/ m = {""} THEN d ELSE CHOOSE v \in m : TRUE

\* x || 0 for a numeric field: undefined, null and 0 are falsy.
OrZero(m) == IF m = {} \/ m = {0} THEN 0 ELSE CHOOSE v \in m : TRUE

\* The lower-case letter of an upper-case ASCII letter; any other character
\* is left as it is.
LowerChar(c) ==
    CASE c = "A" -> "a" [] c = "B" -> "b" [] c = "C" -> "c" [] c = "D" -> "d"
      [] c = "E" -> "e" [] c = "F" -> "f" [] c = "G" -> "g" [] c = "H" -> "h"
      [] c = "I" -> "i" [] c = "J" -> "j" [] c = "K" -> "k" [] c = "L" -> "l"
      [] c = "M" -> "m" [] c = "N" -> "n" [] c = "O" -> "o" [] c = "P" -> "p"
      [] c = "Q" -> "q" [] c = "R" -> "r" [] c = "S" -> "s" [] c = "T" -> "t"
      [] c = "U" -> "u" [] c = "V" -> "v" [] c = "W" -> "w" [] c = "X" -> "x"
      [] c = "Y" -> "y" [] c = "Z" -> "z" [] OTHER -> c

RECURSIVE ToLowerCase(_)
\* String.prototype.toLowerCase, character by character (ASCII text).
ToLowerCase(s) ==
    IF s = "" THEN ""
    ELSE LowerChar(SubSeq(s, 1, 1)) \o ToLowerCase(SubSeq(s, 2, Len(s)))

\* Mutant of mapSeverity: the name is compared without toLowerCase.
mapSeverityCaseSensitive(severity) ==
    IF severity = {} \/ severity = {""} THEN "UNKNOWN"
    ELSE LET s == CHOOSE v \in severity : TRUE
         IN  IF s = "critical" THEN "CRITICAL"
             ELSE IF s = "high" THEN "HIGH"
             ELSE IF s = "medium" THEN "MEDIUM"
             ELSE IF s = "low" THEN "LOW"
             ELSE "UNKNOWN"

\* threatWorker.ts mapSeverity
mapSeverity(severity) ==
    IF severity = {} \/ severity = {""} THEN "UNKNOWN"
    ELSE LET s == ToLowerCase(CHOOSE v \in severity : TRUE)
         IN  IF s = "critical" THEN "CRITICAL"
             ELSE IF s = "high" THEN "HIGH"
             ELSE IF s = "medium" THEN "MEDIUM"
             ELSE IF s = "low" THEN "LOW"
             ELSE "UNKNOWN"

\* A raw feed record (RawSSEThreat).  srcCode is "Source Country Code",
\* dstLat is "Destination Latitude", types is "Attack Types", and so on.
Raw(sc, sn, slat, slng, dc, dn, dlat, dlng, ty, sev) ==
    [srcCode |-> sc, srcName |-> sn, srcLat |-> slat, srcLng |-> slng,
     dstCode |-> dc, dstName |-> dn, dstLat |-> dlat, dstLng |-> dlng,
     types |-> ty, severity |-> sev]

\* The raw records the feed sends in this model.
RawCatalogue ==
    << \* 1: the spec's example record, fully resolved, severity High
       Raw({"US"}, {"United States"}, {40}, {0 - 100},
           {"CN"}, {"China"}, {35}, {105}, {<<"DDoS">>}, {"High"}),
       \* 2: every source-country field missing
       Raw({}, {}, {}, {}, {"CN"}, {"China"}, {35}, {105},
           {<<"Malware">>}, {"Low"}),
       \* 3: source on the equator (latitude 0, longitude 37)
       Raw({"KE"}, {"Kenya"}, {0}, {37}, {"US"}, {"United States"},
           {40}, {0 - 100}, {<<"Phishing">>}, {"CRITICAL"}),
       \* 4: resolved endpoints, unrecognised severity name
       Raw({"DE"}, {"Germany"}, {51}, {10}, {"US"}, {"United States"},
           {40}, {0 - 100}, {<<"DDoS">>}, {"bogus"}),
       \* 5: resolved endpoints, severity low
       Raw({"RU"}, {"Russia"}, {61}, {105}, {"DE"}, {"Germany"},
           {51}, {10}, {<<"Malware">>}, {"low"}),
       \* 6: destination coordinates null, destination code present
       Raw({"US"}, {"United States"}, {40}, {0 - 100}, {"CN"}, {"China"},
           {}, {}, {}, {"MEDIUM"}),
       \* 7: resolved endpoints, severity missing
       Raw({"CN"}, {"China"}, {35}, {105}, {"RU"}, {"Russia"},
           {61}, {105}, {<<"DDoS">>}, {}),
       \* 8: the feed itself says UNK for the destination
       Raw({"DE"}, {"Germany"}, {51}, {10}, {"UNK"}, {""},
           {12}, {34}, {<<"Malware">>}, {"critical"}) >>

\* A network message is described by its kind and, for an array, the records
\* in it: n records that cycle through pattern (indices of RawCatalogue).
\*   "literal"   the exact text []
\*               (an empty array written otherwise, as [ ], is an "array" of 0)
\*   "malformed" text JSON.parse rejects
\*   "object"    JSON that is not an array
\*   "array"     an array of n records
Payload(kind, pattern, n) == [kind |-> kind, pattern |-> pattern, n |-> n]

RawItems(p) ==
    [i \in 1..p.n |-> RawCatalogue[p.pattern[((i - 1) % Len(p.pattern)) + 1]]]

SmallPatterns == {<<1>>, <<1, 2, 5>>, <<3, 5, 4>>, <<6, 8, 7>>}

SmallPayloads ==
    {Payload(k, <<1>>, 0) : k \in {"literal", "malformed", "object", "array"}}
    \cup {Payload("array", pat, Len(pat)) : pat \in SmallPatterns}

BulkPayloads ==
    {Payload("array", <<1, 5>>, BulkSmall),
     Payload("array", <<5, 3, 1, 2>>, BulkLarge)}

---------------------------------------------------------------------------
(* Normalisation *)

Country(code, name, latitude, longitude) ==
    [code |-> code, name |-> name, latitude |-> latitude, longitude |-> longitude]

\* threatWorker.ts convertSSEToAttack.  id stands for crypto.randomUUID():
\* a value no other attack has.  The timestamp is not modelled.
convertSSEToAttack(rawThreat, id) ==
    [id |-> id,
     source |-> Country(OrStr(rawThreat.srcCode, "UNK"),
                        OrStr(rawThreat.srcName, "Unknown"),
                        OrZero(rawThreat.srcLat), OrZero(rawThreat.srcLng)),
     target |-> Country(OrStr(rawThreat.dstCode, "UNK"),
                        OrStr(rawThreat.dstName, "Unknown"),
                        OrZero(rawThreat.dstLat), OrZero(rawThreat.dstLng)),
     type |-> rawThreat.types,
     severity |-> mapSeverity(rawThreat.severity)]

\* severityMap is an object literal: severityMap[key] finds the literal's own
\* properties and, for these keys, the properties every object inherits from
\* Object.prototype, which are truthy.
ObjectPrototypeKeys ==
    {"constructor", "toString", "toLocaleString", "valueOf", "hasOwnProperty",
     "isPrototypeOf", "propertyIsEnumerable", "__proto__"}

\* The inherited property found under key: a function or the prototype, no
\* AttackSeverity.
Inherited(key) == "Object.prototype." \o key

\* threatData.ts mapSeverity: severityMap[severity] || AttackSeverity.UNKNOWN
threatData_mapSeverity(severity) ==
    CASE severity \in {"1", "2"} -> "LOW"
      [] severity = "3" -> "MEDIUM"
      [] severity = "4" -> "HIGH"
      [] severity = "5" -> "CRITICAL"
      [] severity \in ObjectPrototypeKeys -> Inherited(severity)
      [] OTHER -> "UNKNOWN"

\* rawThreat["Attack Count"]?.toString() || "0"
CountString(count) == IF count = {} THEN "0" ELSE ToString(CHOOSE v \in count : TRUE)

\* Mutant of threatData_convertSSEToAttack: a missing source code or name
\* becomes the empty string.
threatData_convertSSEToAttackNoDefault(rawThreat, id) ==
    [id |-> id,
     source |-> Country(OrStr(rawThreat.srcCode, ""), OrStr(rawThreat.srcName, ""),
                        OrZero(rawThreat.srcLat), OrZero(rawThreat.srcLng)),
     target |-> Country(OrStr(rawThreat.dstCode, "UNK"),
                        OrStr(rawThreat.dstName, "Unknown"),
                        OrZero(rawThreat.dstLat), OrZero(rawThreat.dstLng)),
     type |-> rawThreat.types,
     severity |-> threatData_mapSeverity(CountString(rawThreat.count))]

\* threatData.ts convertSSEToAttack; count is "Attack Count".
threatData_convertSSEToAttack(rawThreat, id) ==
    [id |-> id,
     source |-> Country(OrStr(rawThreat.srcCode, "UNK"),
                        OrStr(rawThreat.srcName, "Unknown"),
                        OrZero(rawThreat.srcLat), OrZero(rawThreat.srcLng)),
     target |-> Country(OrStr(rawThreat.dstCode, "UNK"),
                        OrStr(rawThreat.dstName, "Unknown"),
                        OrZero(rawThreat.dstLat), OrZero(rawThreat.dstLng)),
     type |-> rawThreat.types,
     severity |-> threatData_mapSeverity(CountString(rawThreat.count))]

\* attacksWorker.ts mapSeverity: severityMap[severity] || AttackSeverity.LOW
attacksWorker_mapSeverity(severity) ==
    IF severity = {} THEN "LOW"
    ELSE LET s == CHOOSE v \in severity : TRUE
         IN  CASE s \in {"1", "2"} -> "LOW"
               [] s = "3" -> "MEDIUM"
               [] s = "4" -> "HIGH"
               [] s = "5" -> "CRITICAL"
               [] s \in ObjectPrototypeKeys -> Inherited(s)
               [] OTHER -> "LOW"

\* attacksWorker.ts mapAttackType: typeMap[type] || AttackType.MALWARE
mapAttackType(type) ==
    IF type = {"spam_tracker"} THEN "PHISHING"
    ELSE IF type = {"botnet_tracker"} THEN "DDOS"
    ELSE IF \E key \in ObjectPrototypeKeys : type = {key}
         THEN Inherited(CHOOSE key \in type : TRUE)
    ELSE "MALWARE"

\* attacksWorker.ts convertSSEToAttack: the record is rawAttack.data;
\* attackType is "Attack Type", dstSeverity is "Destination Severity".
attacksWorker_convertSSEToAttack(rawAttack, id) ==
    LET data == rawAttack.data
    IN  [id |-> id,
         source |-> Country(OrStr(data.srcCode, "UNK"),
                            OrStr(data.srcName, "Unknown"),
                            OrZero(data.srcLat), OrZero(data.srcLng)),
         target |-> Country(OrStr(data.dstCode, "UNK"),
                            OrStr(data.dstName, "Unknown"),
                            OrZero(data.dstLat), OrZero(data.dstLng)),
         type |-> mapAttackType(data.attackType),
         severity |-> attacksWorker_mapSeverity(data.dstSeverity)]

\* rawThreats.map(convertSSEToAttack) for the message numbered seq
WorkerThreats(p, seq) ==
    LET items == RawItems(p)
    IN  [i \in 1..p.n |-> convertSSEToAttack(items[i], <<seq, i>>)]

\* The inline mapping of DataPage and CountryAnalytics: item => ({...})
PageAttack(item, id) ==
    [id |-> id,
     source |-> Country(OrStr(item.srcCode, "UNK"), OrStr(item.srcName, "Unknown"),
                        OrZero(item.srcLat), OrZero(item.srcLng)),
     target |-> Country(OrStr(item.dstCode, "UNK"), OrStr(item.dstName, "Unknown"),
                        OrZero(item.dstLat), OrZero(item.dstLng)),
     type |-> IF item.types = {} THEN {<<>>} ELSE item.types,
     severity |-> "MEDIUM"]

PageThreats(p, seq) ==
    LET items == RawItems(p)
    IN  [i \in 1..p.n |-> PageAttack(items[i], <<seq, i>>)]

\* Messages of the worker to the UI thread.  seq is history: the number of
\* the network event the message answers.
ThreatsMsg(data, seq) == [type |-> "THREATS", data |-> data, error |-> "", seq |-> seq]

ErrorMsg(error, seq) == [type |-> "ERROR", data |-> <<>>, error |-> error, seq |-> seq]

---------------------------------------------------------------------------
(* EventSource *)

\* new EventSource(url): readyState CONNECTING
OpenConn(cs, owner) == Append(cs, [owner |-> owner, state |-> "connecting"])

\* eventSource.close() on connection c (0: there is none): readyState CLOSED
CloseConn(cs, c) == IF c = 0 THEN cs ELSE [cs EXCEPT ![c].state = "closed"]

\* A connection that has not been closed still holds its socket or retries.
Live(c) == conns[c].state # "closed"

ConnsOf(owner) == {c \in 1..Len(conns) : conns[c].owner = owner}

\* The lists of attacks the views keep.
Lists(current, details, data, country) ==
    [currentAttacks |-> current, attackDetails |-> details,
     dataThreats |-> data, caThreats |-> country]

NoNet == [seq |-> 0, conn |-> 0, owner |-> "none", kind |-> "none",
          payload |-> Payload("none", <<1>>, 0)]

\* The number of the next network event, in order of arrival.
NextSeq == netEvents + 1

NetEvent(c, kind, p) ==
    [seq |-> NextSeq, conn |-> c, owner |-> conns[c].owner, kind |-> kind,
     payload |-> p]

---------------------------------------------------------------------------
(* Malicious-IP reference data: maliciousIPs.ts *)

\* The raw records of the malicious-IP endpoint in this model (RawMaliciousIP).
RawIPCatalogue ==
    << [ip |-> "203.0.113.7", latitude |-> 52, longitude |-> 13, type |-> "malicious"],
       [ip |-> "198.51.100.9", latitude |-> 35, longitude |-> 139, type |-> "suspicious"] >>

\* convertToMaliciousIP: severityMap[type] || AttackSeverity.MEDIUM.
\* id stands for uuidv4(); the timestamp is not modelled.
convertToMaliciousIP(rawIP, id) ==
    [id |-> id, ip |-> rawIP.ip, latitude |-> rawIP.latitude,
     longitude |-> rawIP.longitude,
     severity |-> IF rawIP.type = "malicious" THEN "HIGH" ELSE "MEDIUM"]

\* What the backend answers to one GET /malicious-ips:
\*   "ok"      a 2xx response whose body is the JSON array body
\*   "non2xx"  a response with response.ok false
\*   "network" fetch rejects
Answer(kind, body) == [kind |-> kind, body |-> body]

Answers ==
    {Answer("ok", <<>>), Answer("ok", RawIPCatalogue),
     Answer("non2xx", <<>>), Answer("network", <<>>)}

\* The outcome of an awaited call: a value, or an error thrown.
Returned(value) == [threw |-> FALSE, value |-> value]

Threw(error) == [threw |-> TRUE, value |-> error]

\* fetchMaliciousIPs: the try block returns the converted list; the catch
\* block logs whatever was thrown and returns [].
fetchMaliciousIPs(answer, attempt) ==
    IF answer.kind = "ok"
    THEN Returned([n \in 1..Len(answer.body) |->
                      convertToMaliciousIP(answer.body[n], <<attempt, n>>)])
    ELSE Returned(<<>>)

\* The components that call fetchMaliciousIPsWithRetry() in an effect, and a
\* caller that passes maxRetries itself.
Callers == {"Dashboard", "DataPage"}

AllCallers == Callers \cup {"direct"}

\* A call of fetchMaliciousIPsWithRetry:
\*   pc         "idle" (not called), "attempt" (about to await
\*              fetchMaliciousIPs() in iteration i), "resolved", "rejected"
\*   log        history: the attempts made (with the backend's answer) and
\*              the delays waited, in order
\*   result     the value the promise resolved with
\*   caught     the caller's catch block ran (console.error)
IdleCall ==
    [pc |-> "idle", i |-> 0, maxRetries |-> 0, log |-> <<>>, result |-> <<>>,
     caught |-> FALSE]

AttemptEvent(answer) ==
    [ev |-> "attempt", answer |-> answer.kind, n |-> Len(answer.body)]

DelayEvent == [ev |-> "delay", answer |-> "none", n |-> 0]

\* The call enters the for loop: i = 0; with maxRetries <= 0 the loop body
\* never runs and the call returns [].
StartedCall(maxRetries) ==
    [IdleCall EXCEPT !.maxRetries = maxRetries,
                     !.pc = IF 0 < maxRetries THEN "attempt" ELSE "resolved"]

\* Mutant of RetryIteration: a non-empty list does not end the loop early.
RetryIterationNoReturn(call, answer, ips) ==
    LET tried == [call EXCEPT !.log = Append(@, AttemptEvent(answer))]
    IN  IF call.i = call.maxRetries - 1
        THEN [tried EXCEPT !.pc = "resolved",
                           !.result = IF ips.threw THEN <<>> ELSE ips.value]
        ELSE [tried EXCEPT !.i = @ + 1]

\* One iteration of the for loop of fetchMaliciousIPsWithRetry, from the
\* await of fetchMaliciousIPs() (outcome ips) to the next await or the end
\* of the call.
RetryIteration(call, answer, ips) ==
    LET tried == [call EXCEPT !.log = Append(@, AttemptEvent(answer))]
        last == call.i = call.maxRetries - 1
    IN  IF ~ips.threw
        THEN IF Len(ips.value) > 0
             THEN [tried EXCEPT !.pc = "resolved", !.result = ips.value]
             ELSE IF last
                  THEN [tried EXCEPT !.pc = "resolved", !.result = <<>>]
                  ELSE [tried EXCEPT !.i = @ + 1]
        ELSE IF last
             THEN [tried EXCEPT !.pc = "rejected"]
             ELSE [tried EXCEPT !.i = @ + 1, !.log = Append(@, DelayEvent)]

\* The caller's fetchIPs once the call has ended: setMaliciousIPs(ips) /
\* setIps(data) when it resolved, the catch block when it rejected.
CallerState(prev, call) == IF call.pc = "resolved" THEN call.result ELSE prev

CallerCatch(call) == [call EXCEPT !.caught = (call.pc = "rejected")]

\* The backend answers the pending attempt of caller's call.
FetchAttempt(caller, answer) ==
    /\ fetchCall[caller].pc = "attempt"
    /\ LET call == fetchCall[caller]
           ips == fetchMaliciousIPs(answer, call.i + 1)
           after == RetryIteration(call, answer, ips)
       IN  /\ fetchCall' = [fetchCall EXCEPT ![caller] = CallerCatch(after)]
           /\ ipState' = IF caller \in Callers
                         THEN [ipState EXCEPT ![caller] = CallerState(@, after)]
                         ELSE ipState
    /\ UNCHANGED <<streamVars, legacyVars, lastCall, uiVars>>

\* fetchMaliciousIPsWithRetry(maxRetries) called directly.
CallWithRetry(maxRetries) ==
    /\ fetchCall["direct"].pc = "idle"
    /\ fetchCall' = [fetchCall EXCEPT !["direct"] = StartedCall(maxRetries)]
    /\ UNCHANGED <<streamVars, ipState, legacyVars, lastCall, uiVars>>

\* The fetchIPs effects of Dashboard and DataPage at the first render, which
\* end at once if the call does.
FetchIPsEffects ==
    /\ fetchCall' = [caller \in AllCallers |->
                        IF caller \in Callers THEN StartedCall(DefaultMaxRetries)
                        ELSE fetchCall[caller]]
    /\ ipState' = [caller \in Callers |->
                      CallerState(ipState[caller], StartedCall(DefaultMaxRetries))]

---------------------------------------------------------------------------
(* IP analysis: handleIPClick of Dashboard and of DataPage, IPDetailsModal *)

MaxClicks == 2

\* useState(false), useState(null), useState(false), useState(null)
InitialAnalysis ==
    [showIPModal |-> FALSE, isAnalyzing |-> FALSE, analysisError |-> {},
     analysisData |-> {}]

\* The data set before the request: DataPage writes ip.country_code || 'UNK',
\* Dashboard ip.country_code, which convertToMaliciousIP never sets.
Placeholder(component, ip) ==
    [ip |-> ip.ip,
     countryCode |-> IF component = "DataPage" THEN {"UNK"} ELSE {},
     usageType |-> "Scanning...", abuseConfidenceScore |-> 0]

\* The report the backend sends for ip.
Report(ip) ==
    [ip |-> ip, countryCode |-> {"DE"}, usageType |-> "Data Center",
     abuseConfidenceScore |-> 90]

\* What the backend answers to one POST /api/analyze-ip:
\*   "ok"            2xx, the body is the report
\*   "okNotJSON"     2xx, response.json() rejects
\*   "errorMessage"  non-2xx, the body is { error: "..." }
\*   "errorEmpty"    non-2xx, the body is an object without error
\*   "errorNotJSON"  non-2xx, response.json() rejects
\*   "network"       fetch rejects
AnalysisAnswers ==
    {"ok", "okNotJSON", "errorMessage", "errorEmpty", "errorNotJSON", "network"}

\* Mutant of AnalysisOutcome: the catch block and the else branch set nothing.
AnalysisOutcomeSilent(answer, ip) ==
    IF answer = "ok" THEN [data |-> {Report(ip)}, error |-> {}]
    ELSE [data |-> {}, error |-> {}]

\* The try / catch of handleIPClick after the await: the argument of
\* setAnalysisData and of setAnalysisError ({}: not called).
AnalysisOutcome(answer, ip) ==
    CASE answer = "ok" -> [data |-> {Report(ip)}, error |-> {}]
      [] answer = "errorMessage" -> [data |-> {}, error |-> {"Rate limit exceeded"}]
      [] answer = "errorEmpty" -> [data |-> {}, error |-> {"Analysis failed"}]
      [] OTHER -> [data |-> {}, error |-> {"Failed to connect to intelligence server"}]

Lookup(component, ip) == [component |-> component, ip |-> ip, answer |-> "pending"]

\* handleIPClick(ip) up to its await: the four setters, the placeholder, fetch.
HandleIPClick(component, ip) ==
    /\ mounted
    /\ ipClicks < MaxClicks
    /\ ipClicks' = ipClicks + 1
    /\ analysis' = [analysis EXCEPT ![component] =
                       [showIPModal |-> TRUE, isAnalyzing |-> TRUE,
                        analysisError |-> {},
                        analysisData |-> {Placeholder(component, ip)}]]
    /\ lookups' = Append(lookups, Lookup(component, ip.ip))
    /\ analysisFrom' = [analysisFrom EXCEPT ![component] =
                           [data |-> Len(lookups) + 1, error |-> 0]]
    /\ UNCHANGED <<streamVars, fetchVars, legacyVars, lastCall, exportVars,
                   briefingVars>>

\* handleIPClick after its await: the backend answers lookup k.
AnalysisResponse(k, answer) ==
    /\ lookups[k].answer = "pending"
    /\ LET component == lookups[k].component
           outcome == AnalysisOutcome(answer, lookups[k].ip)
       IN  /\ analysis' = [analysis EXCEPT ![component] =
                  [@ EXCEPT !.analysisData =
                                IF outcome.data # {} THEN outcome.data ELSE @,
                            !.analysisError =
                                IF outcome.error # {} THEN outcome.error ELSE @,
                            !.isAnalyzing = FALSE]]
           /\ analysisFrom' = [analysisFrom EXCEPT ![component] =
                  [data |-> IF outcome.data # {} THEN k ELSE @.data,
                   error |-> IF outcome.error # {} THEN k ELSE @.error]]
    /\ lookups' = [lookups EXCEPT ![k].answer = answer]
    /\ UNCHANGED <<streamVars, fetchVars, legacyVars, lastCall, ipClicks,
                   exportVars, briefingVars>>

\* IPDetailsModal: the report view (not the loading view) calls onClose.
CloseIPModal(component) ==
    /\ analysis[component].showIPModal
    /\ ~analysis[component].isAnalyzing
    /\ analysis' = [analysis EXCEPT ![component].showIPModal = FALSE]
    /\ UNCHANGED <<streamVars, fetchVars, legacyVars, lastCall, lookups,
                   ipClicks, analysisFrom, exportVars, briefingVars>>

---------------------------------------------------------------------------
(* DataPage: tabs, news, CSV export *)

MaxExportClicks == 3

MaxExportEvents == 1

Tabs == {"threats", "news", "ips"}

NewsItems == << [title |-> "Advisory", link |-> "https://example.org/1"],
                [title |-> "Patch", link |-> "https://example.org/2"] >>

\* What the backend answers to GET /news: a JSON array, or no JSON at all.
NewsAnswers ==
    {Answer("ok", <<>>), Answer("ok", NewsItems), Answer("network", <<>>)}

\* useEffect(() => { fetchNews() }, [])
FetchNewsEffect == newsFetch' = "pending"

\* fetchNews after its awaits: setNews(data), or the catch block.
NewsResponse(answer) ==
    /\ newsFetch = "pending"
    /\ newsFetch' = answer.kind
    /\ news' = IF answer.kind = "ok" THEN answer.body ELSE news
    /\ UNCHANGED <<streamVars, fetchVars, legacyVars, lastCall, analysisVars,
                   activeTab, downloads, exportLog, briefingVars>>

\* The tab buttons: setActiveTab(tab)
SetActiveTab(tab) ==
    /\ mounted
    /\ tab # activeTab
    /\ activeTab' = tab
    /\ UNCHANGED <<streamVars, fetchVars, legacyVars, lastCall, analysisVars,
                   news, newsFetch, downloads, exportLog, briefingVars>>

\* The timestamps are not modelled.
flattenThreats(threats) ==
    [i \in 1..Len(threats) |->
        [Source |-> threats[i].source.name, Target |-> threats[i].target.name,
         Types |-> threats[i].type, Severity |-> threats[i].severity]]

flattenIPs(ips) ==
    [i \in 1..Len(ips) |->
        [IP |-> ips[i].ip, Latitude |-> ips[i].latitude,
         Longitude |-> ips[i].longitude, Severity |-> ips[i].severity]]

\* A file handed to the browser by link.click()
File(filename, headers, rows) ==
    [filename |-> filename, headers |-> headers, rows |-> rows]

\* Mutant of downloadCSV: no early return for an empty list.
downloadCSVNoGuard(files, data, filename, linkDownload) ==
    IF linkDownload
    THEN Append(files, File(filename,
                            IF Len(data) = 0 THEN {} ELSE DOMAIN data[1],
                            Len(data)))
    ELSE files

\* downloadCSV(data, filename): the files produced so far and after the
\* call.  linkDownload: link.download !== undefined in this browser.
downloadCSV(files, data, filename, linkDownload) ==
    IF Len(data) = 0 THEN files
    ELSE IF linkDownload
         THEN Append(files, File(filename, DOMAIN data[1], Len(data)))
         ELSE files

\* The arguments of downloadCSV for the active tab.
ExportData(tab) ==
    CASE tab = "threats" -> flattenThreats(dataThreats)
      [] tab = "news" -> news
      [] tab = "ips" -> flattenIPs(ipState["DataPage"])

ExportName(tab) ==
    CASE tab = "threats" -> "threat_data.csv"
      [] tab = "news" -> "news_data.csv"
      [] tab = "ips" -> "malicious_ips.csv"

\* The "Download CSV" button
DownloadClick(linkDownload) ==
    /\ mounted
    /\ Len(exportLog) < MaxExportClicks
    /\ exportLog' = Append(exportLog,
                           [tab |-> activeTab, rows |-> Len(ExportData(activeTab))])
    /\ downloads' = downloadCSV(downloads, ExportData(activeTab),
                                ExportName(activeTab), linkDownload)
    /\ UNCHANGED <<streamVars, fetchVars, legacyVars, lastCall, analysisVars,
                   activeTab, news, newsFetch, briefingVars>>

---------------------------------------------------------------------------
(* BriefingCard *)

MaxBriefingFetches == 3

RiskLevels == {"Critical", "High", "Medium", "Low"}

BriefingData(risk_level) ==
    [summary |-> "summary", points |-> <<"point">>, risk_level |-> risk_level]

\* What the backend answers to GET /api/briefing:
\*   "ok"       2xx, the body is a briefing
\*   "non2xx"   response.ok false, the body is JSON
\*   "notJSON"  response.json() rejects
\*   "network"  fetch rejects
BriefingAnswers ==
    {Answer("ok", BriefingData(risk_level)) : risk_level \in RiskLevels}
    \cup {Answer(kind, <<>>) : kind \in {"non2xx", "notJSON", "network"}}

\* The try / catch of fetchBriefing after the await: the argument of
\* setBriefing and of setError ({}: not called).
BriefingOutcome(answer) ==
    CASE answer.kind = "ok" -> [briefing |-> {answer.body}, error |-> {}]
      [] answer.kind = "non2xx" ->
            [briefing |-> {}, error |-> {"Failed to load briefing"}]
      [] OTHER -> [briefing |-> {}, error |-> {"Connection failed"}]

\* Mutant of BriefingCardRenders: the card is rendered whatever error is.
BriefingCardRendersAlways(error) == TRUE

\* if (error) return null
BriefingCardRenders(error) == error = {}

\* fetchBriefing() up to its await: setLoading(true), fetch
FetchBriefingStart ==
    /\ briefingLoading' = TRUE
    /\ briefingFetches' = Append(briefingFetches, "pending")

\* useEffect(() => { fetchBriefing() }, [])
BriefingCardEffect ==
    /\ FetchBriefingStart
    /\ UNCHANGED <<briefing, briefingError>>

\* The refresh button: rendered with the card, disabled while loading.
RefreshBriefing ==
    /\ mounted
    /\ BriefingCardRenders(briefingError)
    /\ ~briefingLoading
    /\ Len(briefingFetches) < MaxBriefingFetches
    /\ FetchBriefingStart
    /\ UNCHANGED <<streamVars, fetchVars, legacyVars, lastCall, analysisVars,
                   exportVars, briefing, briefingError>>

\* fetchBriefing after its awaits: the backend answers fetch k.
BriefingResponse(k, answer) ==
    /\ briefingFetches[k] = "pending"
    /\ briefingFetches' = [briefingFetches EXCEPT ![k] = answer.kind]
    /\ LET outcome == BriefingOutcome(answer)
       IN  /\ briefing' = IF outcome.briefing # {} THEN outcome.briefing ELSE briefing
           /\ briefingError' = IF outcome.error # {} THEN outcome.error
                               ELSE briefingError
    /\ briefingLoading' = FALSE
    /\ UNCHANGED <<streamVars, fetchVars, legacyVars, lastCall, analysisVars,
                   exportVars>>

---------------------------------------------------------------------------
(* Pure functions, called on their own *)

NoCall == [fn |-> "none", in |-> <<>>, out |-> <<>>]

Call(fn, in, out) == [fn |-> fn, in |-> in, out |-> out]

---------------------------------------------------------------------------
Init ==
    /\ mounted = FALSE
    /\ isStreamPaused = FALSE
    /\ selectedSeverities = InitialSeverities
    /\ handlerSeverities = {}
    /\ threatWorker = FALSE
    /\ dashCleanup = FALSE
    /\ currentAttacks = <<>>
    /\ attackDetails = <<>>
    /\ ctrlQueue = <<>>
    /\ uiQueue = <<>>
    /\ workerEventSource = 0
    /\ conns = <<>>
    /\ dataES = 0
    /\ dataThreats = <<>>
    /\ caES = 0
    /\ caThreats = <<>>
    /\ netEvents = 0
    /\ lastNet = NoNet
    /\ userSteps = 0
    /\ accepted = <<>>
    /\ workersCreated = 0
    /\ controlLog = <<>>
    /\ atPause = Lists(<<>>, <<>>, <<>>, <<>>)
    /\ fetchCall = [caller \in AllCallers |-> IdleCall]
    /\ ipState = [caller \in Callers |-> <<>>]
    /\ legacyCurrentAttacks = <<>>
    /\ legacyAttackDetails = <<>>
    /\ legacyTimers = <<>>
    /\ lastCall = NoCall
    /\ analysis = [component \in Callers |-> InitialAnalysis]
    /\ lookups = <<>>
    /\ ipClicks = 0
    /\ analysisFrom = [component \in Callers |-> [data |-> 0, error |-> 0]]
    /\ activeTab = "threats"
    /\ news = <<>>
    /\ newsFetch = "idle"
    /\ downloads = <<>>
    /\ exportLog = <<>>
    /\ briefing = {}
    /\ briefingLoading = TRUE
    /\ briefingError = {}
    /\ briefingFetches = <<>>

---------------------------------------------------------------------------
(* UI thread: effects *)

\* Mutant of DashboardEffect: every run for an unpaused render constructs a
\* new Worker (the worker is not kept across runs).
DashboardEffectRecreate(paused, sel) ==
    LET cleanupPosts == IF dashCleanup /\ threatWorker THEN <<"STOP_SSE">> ELSE <<>>
        effectPosts == IF paused
                       THEN (IF threatWorker THEN <<"STOP_SSE">> ELSE <<>>)
                       ELSE <<"START_SSE">>
    IN  /\ ctrlQueue' = ctrlQueue \o cleanupPosts \o effectPosts
        /\ controlLog' = controlLog \o cleanupPosts \o effectPosts
        /\ threatWorker' = (threatWorker \/ ~paused)
        /\ handlerSeverities' = IF ~paused THEN sel ELSE handlerSeverities
        /\ dashCleanup' = ~paused
        /\ workersCreated' = IF ~paused THEN workersCreated + 1 ELSE workersCreated

\* Mutant of DashboardEffect: the effect returns no cleanup, so no STOP_SSE is
\* posted before the next run.
DashboardEffectNoCleanup(paused, sel) ==
    LET effectPosts == IF paused
                       THEN (IF threatWorker THEN <<"STOP_SSE">> ELSE <<>>)
                       ELSE <<"START_SSE">>
    IN  /\ ctrlQueue' = ctrlQueue \o effectPosts
        /\ controlLog' = controlLog \o effectPosts
        /\ threatWorker' = (threatWorker \/ ~paused)
        /\ handlerSeverities' = IF ~paused /\ ~threatWorker THEN sel
                                ELSE handlerSeverities
        /\ dashCleanup' = FALSE
        /\ workersCreated' = IF ~paused /\ ~threatWorker THEN workersCreated + 1
                             ELSE workersCreated

\* Dashboard's threat-worker effect, run for the render with pause flag
\* paused and selection sel: the previous run's cleanup, then the effect body.
DashboardEffect(paused, sel) ==
    LET cleanupPosts == IF dashCleanup /\ threatWorker THEN <<"STOP_SSE">> ELSE <<>>
        effectPosts == IF paused
                       THEN (IF threatWorker THEN <<"STOP_SSE">> ELSE <<>>)
                       ELSE <<"START_SSE">>
    IN  /\ ctrlQueue' = ctrlQueue \o cleanupPosts \o effectPosts
        /\ controlLog' = controlLog \o cleanupPosts \o effectPosts
        /\ threatWorker' = (threatWorker \/ ~paused)
        /\ handlerSeverities' = IF ~paused /\ ~threatWorker THEN sel
                                ELSE handlerSeverities
        /\ dashCleanup' = ~paused
        /\ workersCreated' = IF ~paused /\ ~threatWorker THEN workersCreated + 1
                             ELSE workersCreated

\* The threat-stream effects of DataPage and CountryAnalytics for the render
\* with pause flag paused: both cleanups, then both effect bodies.
PagesEffect(paused) ==
    LET cleaned == CloseConn(CloseConn(conns, dataES), caES)
    IN  IF paused
        THEN /\ conns' = cleaned
             /\ dataES' = 0
             /\ caES' = 0
        ELSE /\ conns' = OpenConn(OpenConn(cleaned, "data"), "country")
             /\ dataES' = Len(cleaned) + 1
             /\ caES' = Len(cleaned) + 2

\* First render of App: MainContent mounts Dashboard, DataPage and
\* CountryAnalytics together and their effects run.
Mount ==
    /\ ~mounted
    /\ mounted' = TRUE
    /\ DashboardEffect(isStreamPaused, selectedSeverities)
    /\ PagesEffect(isStreamPaused)
    /\ UNCHANGED <<isStreamPaused, selectedSeverities, currentAttacks,
                   attackDetails, uiQueue, workerEventSource, dataThreats,
                   caThreats, netEvents, lastNet, userSteps, accepted>>
    /\ FetchIPsEffects
    /\ FetchNewsEffect
    /\ BriefingCardEffect
    /\ UNCHANGED <<atPause, legacyVars, lastCall, analysisVars, activeTab, news,
                   downloads, exportLog>>

\* Navbar button: toggleStream, then the re-render's effects.
ToggleStream ==
    /\ mounted
    /\ userSteps < MaxUserSteps
    /\ userSteps' = userSteps + 1
    /\ isStreamPaused' = ~isStreamPaused
    /\ DashboardEffect(~isStreamPaused, selectedSeverities)
    /\ PagesEffect(~isStreamPaused)
    /\ UNCHANGED <<mounted, selectedSeverities, currentAttacks, attackDetails,
                   uiQueue, workerEventSource, dataThreats, caThreats,
                   netEvents, lastNet, accepted>>
    /\ atPause' = IF ~isStreamPaused
                  THEN Lists(currentAttacks, attackDetails, dataThreats, caThreats)
                  ELSE atPause
    /\ UNCHANGED nonStreamVars

\* The selections a user makes in this model.
SeverityChoices == {InitialSeverities, {"HIGH", "CRITICAL"}}

\* setSelectedSeverities(sel), then the re-render's effect (the effect lists
\* selectedSeverities as a dependency).  The state setter is the component's
\* only way to change the selection.
SetSelectedSeverities(sel) ==
    /\ mounted
    /\ userSteps < MaxUserSteps
    /\ userSteps' = userSteps + 1
    /\ selectedSeverities' = sel
    /\ DashboardEffect(isStreamPaused, sel)
    /\ UNCHANGED <<mounted, isStreamPaused, currentAttacks, attackDetails,
                   uiQueue, workerEventSource, conns, dataES, dataThreats,
                   caES, caThreats, netEvents, lastNet, accepted>>
    /\ UNCHANGED <<atPause, nonStreamVars>>

---------------------------------------------------------------------------
(* UI thread: the Dashboard's handler of worker messages *)

\* Mutant of ValidThreat: the two country-code tests left out.
ValidThreatNoCodeTest(attack, sel) ==
    /\ attack.severity \in sel
    /\ attack.source.latitude # 0
    /\ attack.source.longitude # 0
    /\ attack.target.latitude # 0
    /\ attack.target.longitude # 0

\* Mutant of ValidThreat: an endpoint is rejected only when both of its
\* coordinates are zero.
ValidThreatOriginOnly(attack, sel) ==
    /\ attack.severity \in sel
    /\ attack.source.code # "UNK"
    /\ attack.target.code # "UNK"
    /\ (attack.source.latitude # 0 \/ attack.source.longitude # 0)
    /\ (attack.target.latitude # 0 \/ attack.target.longitude # 0)

\* The filter of threatWorkerRef.current.onmessage, with the selection sel
\* the closure holds.
ValidThreat(attack, sel) ==
    /\ attack.severity \in sel
    /\ attack.source.code # "UNK"
    /\ attack.target.code # "UNK"
    /\ attack.source.latitude # 0
    /\ attack.source.longitude # 0
    /\ attack.target.latitude # 0
    /\ attack.target.longitude # 0

ValidThreats(threats, sel) == SelectSeq(threats, LAMBDA a : ValidThreat(a, sel))

\* Mutant of AddCurrentAttacks: slice(30) written for slice(-30).
AddCurrentAttacksSliceFrom(prev, validThreats) ==
    SubSeq(prev \o validThreats, DashboardMapCap + 1, Len(prev) + Len(validThreats))

\* setCurrentAttacks(prev => [...prev, ...validThreats].slice(-30))
AddCurrentAttacks(prev, validThreats) ==
    SliceLast(prev \o validThreats, DashboardMapCap)

\* Mutant of AddAttackDetails: the oldest 500 kept, slice(0, 500).
AddAttackDetailsOldest(prev, validThreats) ==
    SliceFirst(prev \o validThreats, DashboardHistoryCap)

\* Mutant of AddAttackDetails: the new batch put in front of the history.
AddAttackDetailsPrepend(prev, validThreats) ==
    SliceLast(validThreats \o prev, DashboardHistoryCap)

\* setAttackDetails(prev => [...prev, ...validThreats].slice(-500))
AddAttackDetails(prev, validThreats) ==
    SliceLast(prev \o validThreats, DashboardHistoryCap)

\* threatWorkerRef.current.onmessage
DashboardOnWorkerMessage ==
    /\ threatWorker
    /\ uiQueue # <<>>
    /\ uiQueue' = Tail(uiQueue)
    /\ LET msg == Head(uiQueue)
           validThreats == ValidThreats(msg.data, handlerSeverities)
       IN  IF msg.type = "THREATS" /\ Len(validThreats) > 0
           THEN /\ currentAttacks' = AddCurrentAttacks(currentAttacks, validThreats)
                /\ attackDetails' = AddAttackDetails(attackDetails, validThreats)
                /\ accepted' = accepted \o validThreats
           ELSE UNCHANGED <<currentAttacks, attackDetails, accepted>>
    /\ UNCHANGED <<mounted, isStreamPaused, selectedSeverities, handlerSeverities,
                   threatWorker, dashCleanup, ctrlQueue, workerEventSource,
                   conns, dataES, dataThreats, caES, caThreats, netEvents,
                   lastNet, userSteps>>
    /\ UNCHANGED <<workersCreated, controlLog, atPause, nonStreamVars>>

---------------------------------------------------------------------------
(* Worker thread *)

\* self.onmessage, START_SSE branch: a new EventSource, stored in
\* self.eventSource.  The one stored before is neither read nor closed.
WorkerStartConns(cs) == OpenConn(cs, "worker")

\* self.onmessage, STOP_SSE branch: close the stored EventSource, if any.
WorkerStopConns(cs, stored) == CloseConn(cs, stored)

\* self.onmessage of the worker: one control message of the UI thread
WorkerOnControl ==
    /\ ctrlQueue # <<>>
    /\ ctrlQueue' = Tail(ctrlQueue)
    /\ IF Head(ctrlQueue) = "START_SSE"
       THEN /\ conns' = WorkerStartConns(conns)
            /\ workerEventSource' = Len(conns) + 1
       ELSE /\ conns' = WorkerStopConns(conns, workerEventSource)
            /\ UNCHANGED workerEventSource
    /\ UNCHANGED <<mounted, isStreamPaused, selectedSeverities, handlerSeverities,
                   threatWorker, dashCleanup, currentAttacks, attackDetails,
                   uiQueue, dataES, dataThreats, caES, caThreats, netEvents,
                   lastNet, userSteps, accepted>>
    /\ UNCHANGED <<workersCreated, controlLog, atPause, nonStreamVars>>

\* Mutant of WorkerReply: the catch block reports nothing, an empty batch is
\* posted instead.
WorkerReplySwallow(p, seq) ==
    IF p.kind = "array" THEN ThreatsMsg(WorkerThreats(p, seq), seq)
    ELSE ThreatsMsg(<<>>, seq)

\* Mutant of WorkerReply: an empty array is reported as a decode error.
WorkerReplyHeartbeatError(p, seq) ==
    IF p.kind = "array" /\ p.n > 0 THEN ThreatsMsg(WorkerThreats(p, seq), seq)
    ELSE ErrorMsg("Error parsing SSE data", seq)

\* What eventSource.onmessage of the worker posts for the message p,
\* the seq-th network event.
WorkerReply(p, seq) ==
    IF p.kind = "literal" THEN ThreatsMsg(<<>>, seq)
    ELSE IF p.kind = "array" THEN ThreatsMsg(WorkerThreats(p, seq), seq)
    ELSE ErrorMsg("Error parsing SSE data", seq)

\* eventSource.onmessage of the worker, on its connection c
WorkerESMessage(c, p, limit) ==
    /\ conns[c].owner = "worker"
    /\ conns[c].state = "open"
    /\ netEvents < limit
    /\ netEvents' = netEvents + 1
    /\ lastNet' = NetEvent(c, "message", p)
    /\ uiQueue' = Append(uiQueue, WorkerReply(p, NextSeq))
    /\ UNCHANGED <<mounted, isStreamPaused, selectedSeverities, handlerSeverities,
                   threatWorker, dashCleanup, currentAttacks, attackDetails,
                   ctrlQueue, workerEventSource, conns, dataES, dataThreats,
                   caES, caThreats, userSteps, accepted>>
    /\ UNCHANGED <<workersCreated, controlLog, atPause, nonStreamVars>>

\* The browser's part of an error on connection c: a fatal error (a bad
\* response) closes the EventSource, any other makes it reconnect.
BrowserError(cs, c, fatal) ==
    [cs EXCEPT ![c].state = IF fatal THEN "closed" ELSE "connecting"]

\* Mutant of WorkerOnErrorConns: onerror does not close the EventSource.
WorkerOnErrorNoClose(cs, c) == cs

\* eventSource.onerror of the worker: eventSource.close()
WorkerOnErrorConns(cs, c) == CloseConn(cs, c)

\* An error event on the worker's connection c
WorkerESError(c, fatal, limit) ==
    /\ conns[c].owner = "worker"
    /\ Live(c)
    /\ netEvents < limit
    /\ netEvents' = netEvents + 1
    /\ lastNet' = NetEvent(c, "error", Payload("none", <<1>>, 0))
    /\ uiQueue' = Append(uiQueue, ErrorMsg("SSE Error", NextSeq))
    /\ conns' = WorkerOnErrorConns(BrowserError(conns, c, fatal), c)
    /\ UNCHANGED <<mounted, isStreamPaused, selectedSeverities, handlerSeverities,
                   threatWorker, dashCleanup, currentAttacks, attackDetails,
                   ctrlQueue, workerEventSource, dataES, dataThreats, caES,
                   caThreats, userSteps, accepted>>
    /\ UNCHANGED <<workersCreated, controlLog, atPause, nonStreamVars>>

---------------------------------------------------------------------------
(* Browser and the views that hold an EventSource on the UI thread *)

\* The browser establishes (or re-establishes) connection c.
ESOpen(c) ==
    /\ conns[c].state = "connecting"
    /\ conns' = [conns EXCEPT ![c].state = "open"]
    /\ UNCHANGED <<mounted, isStreamPaused, selectedSeverities, handlerSeverities,
                   threatWorker, dashCleanup, currentAttacks, attackDetails,
                   ctrlQueue, uiQueue, workerEventSource, dataES, dataThreats,
                   caES, caThreats, netEvents, lastNet, userSteps, accepted>>
    /\ UNCHANGED <<workersCreated, controlLog, atPause, nonStreamVars>>

\* Whether the try block of a view's onmessage reaches setThreats for p.
PageAccepts(p) == p.kind = "array" /\ p.n > 0

\* DataPage: setThreats(prev => [...newThreats, ...prev].slice(0, 1000))
AddDataThreats(prev, newThreats) == SliceFirst(newThreats \o prev, DataPageCap)

\* CountryAnalytics: setThreats(prev => [...prev, ...newThreats].slice(-5000))
AddCountryThreats(prev, newThreats) ==
    SliceLast(prev \o newThreats, CountryAnalyticsCap)

\* eventSource.onmessage of DataPage, on its connection c
DataPageESMessage(c, p, limit) ==
    /\ conns[c].owner = "data"
    /\ conns[c].state = "open"
    /\ netEvents < limit
    /\ netEvents' = netEvents + 1
    /\ dataThreats' = IF PageAccepts(p)
                      THEN AddDataThreats(dataThreats, PageThreats(p, NextSeq))
                      ELSE dataThreats
    /\ UNCHANGED <<lastNet, mounted, isStreamPaused, selectedSeverities, handlerSeverities,
                   threatWorker, dashCleanup, currentAttacks, attackDetails,
                   ctrlQueue, uiQueue, workerEventSource, conns, dataES, caES,
                   caThreats, userSteps, accepted>>
    /\ UNCHANGED <<workersCreated, controlLog, atPause, nonStreamVars>>

\* eventSource.onmessage of CountryAnalytics, on its connection c
CountryESMessage(c, p, limit) ==
    /\ conns[c].owner = "country"
    /\ conns[c].state = "open"
    /\ netEvents < limit
    /\ netEvents' = netEvents + 1
    /\ caThreats' = IF PageAccepts(p)
                    THEN AddCountryThreats(caThreats, PageThreats(p, NextSeq))
                    ELSE caThreats
    /\ UNCHANGED <<lastNet, mounted, isStreamPaused, selectedSeverities, handlerSeverities,
                   threatWorker, dashCleanup, currentAttacks, attackDetails,
                   ctrlQueue, uiQueue, workerEventSource, conns, dataES,
                   dataThreats, caES, userSteps, accepted>>
    /\ UNCHANGED <<workersCreated, controlLog, atPause, nonStreamVars>>

\* An error event on a view's connection c: the views set no onerror, so
\* only the browser acts.
PageESError(c, fatal, limit) ==
    /\ conns[c].owner \in {"data", "country"}
    /\ Live(c)
    /\ netEvents < limit
    /\ netEvents' = netEvents + 1
    /\ conns' = BrowserError(conns, c, fatal)
    /\ UNCHANGED <<lastNet, mounted, isStreamPaused, selectedSeverities, handlerSeverities,
                   threatWorker, dashCleanup, currentAttacks, attackDetails,
                   ctrlQueue, uiQueue, workerEventSource, dataES, dataThreats,
                   caES, caThreats, userSteps, accepted>>
    /\ UNCHANGED <<workersCreated, controlLog, atPause, nonStreamVars>>

\* A harness that owns a worker instance posts it a control message.
PostControl(m) ==
    /\ ~mounted
    /\ userSteps < MaxUserSteps
    /\ userSteps' = userSteps + 1
    /\ ctrlQueue' = Append(ctrlQueue, m)
    /\ controlLog' = Append(controlLog, m)
    /\ UNCHANGED <<mounted, isStreamPaused, selectedSeverities, handlerSeverities,
                   threatWorker, dashCleanup, currentAttacks, attackDetails,
                   uiQueue, workerEventSource, conns, dataES, dataThreats, caES,
                   caThreats, netEvents, lastNet, accepted>>
    /\ UNCHANGED <<workersCreated, atPause, nonStreamVars>>

---------------------------------------------------------------------------
(* Legacy orchestrator: Deepcytes-LCTM-1/src/App.tsx *)

\* The worker messages the legacy App handles in this model: what a threat
\* worker posts for these network messages.
LegacyPayloads ==
    {Payload("malformed", <<1>>, 0), Payload("array", <<1, 2, 5>>, 3),
     Payload("array", <<1, 5>>, BulkSmall)}

\* validThreats.forEach((threat, index) => setTimeout(..., index * 200)):
\* the callbacks of one batch, set at time at (in units of 200 ms), of which
\* the first next - 1 have run.
Timers(validThreats, at) == [threats |-> validThreats, next |-> 1, at |-> at]

Pending(b) == legacyTimers[b].next <= Len(legacyTimers[b].threats)

\* The time the next timer of batch b is due.
Due(b) == legacyTimers[b].at + legacyTimers[b].next - 1

Max(a, b) == IF a >= b THEN a ELSE b

RECURSIVE LastDue(_)
\* The latest time a timer of the batches 1..b that has run was due.
LastDue(b) ==
    IF b = 0 THEN 0
    ELSE LET t == legacyTimers[b]
         IN  Max(LastDue(b - 1), IF t.next > 1 THEN t.at + t.next - 2 ELSE 0)

\* The current time: no timer runs before it is due.
LegacyNow == LastDue(Len(legacyTimers))

\* threatWorkerRef.current.onmessage of the legacy App.  selectedSeverities
\* has its initial value: nothing the App renders calls its setter.
LegacyOnWorkerMessage(msg) ==
    /\ Len(legacyTimers) < MaxLegacyEvents
    /\ legacyTimers' =
           IF msg.type = "THREATS"
           THEN Append(legacyTimers,
                       Timers(ValidThreats(msg.data, InitialSeverities), LegacyNow))
           ELSE Append(legacyTimers, Timers(<<>>, LegacyNow))
    /\ UNCHANGED <<legacyCurrentAttacks, legacyAttackDetails>>
    /\ UNCHANGED <<streamVars, fetchVars, lastCall, uiVars>>

\* The callback of the next timer of batch b runs: timers run in the order
\* they are due, and in the order they were set when due together.
LegacyTimerFire(b) ==
    /\ Pending(b)
    /\ \A a \in 1..Len(legacyTimers) :
           Pending(a) => (Due(a) > Due(b) \/ (Due(a) = Due(b) /\ a >= b))
    /\ LET threat == legacyTimers[b].threats[legacyTimers[b].next]
       IN  /\ legacyCurrentAttacks' = Append(legacyCurrentAttacks, threat)
           /\ legacyAttackDetails' = Append(legacyAttackDetails, threat)
    /\ legacyTimers' = [legacyTimers EXCEPT ![b].next = @ + 1]
    /\ UNCHANGED <<streamVars, fetchVars, lastCall, uiVars>>

---------------------------------------------------------------------------
(* The normalizers and the severity mapper, called on their own: each
   behaviour is one call, on one input. *)

\* Raw records for the normalizers: every combination of a missing, empty
\* or present source code, a missing or present source name and missing,
\* zero or present source coordinates.  The record without a source name
\* also lacks the severity fields.
NormRecords ==
    {[srcCode |-> sc, srcName |-> sn, srcLat |-> pos.lat, srcLng |-> pos.lng,
      dstCode |-> {"CN"}, dstName |-> {"China"}, dstLat |-> {35}, dstLng |-> {105},
      types |-> {<<"DDoS">>},
      severity |-> IF sn = {} THEN {} ELSE {"High"},
      count |-> IF sn = {} THEN {} ELSE {4},
      attackType |-> {"spam_tracker"},
      dstSeverity |-> IF sn = {} THEN {} ELSE {"4"}] :
        sc \in {{}, {""}, {"US"}}, sn \in {{}, {"United States"}},
        pos \in {[lat |-> {}, lng |-> {}], [lat |-> {0}, lng |-> {0}],
                 [lat |-> {}, lng |-> {0 - 100}], [lat |-> {40}, lng |-> {0 - 100}]}}

RECURSIVE BatchesOf(_)
\* The batches of n records.
BatchesOf(n) ==
    IF n = 0 THEN {<<>>}
    ELSE {Append(batch, raw) : batch \in BatchesOf(n - 1), raw \in NormRecords}

\* The batches of at most MaxBatchLen records.
Batches == UNION {BatchesOf(n) : n \in 0..MaxBatchLen}

\* The inputs of the one call of a behaviour: none once the call is made.
CallInputs(inputs) == IF lastCall = NoCall THEN inputs ELSE {}

\* eventSource.onmessage of the threat worker, its conversion alone:
\* rawThreats.map(convertSSEToAttack)
ThreatWorkerNormalize(rawThreats) ==
    /\ lastCall = NoCall
    /\ lastCall' = Call("threatWorker", rawThreats,
                        [i \in 1..Len(rawThreats) |->
                            convertSSEToAttack(rawThreats[i], <<1, i>>)])
    /\ UNCHANGED <<streamVars, fetchVars, legacyVars, uiVars>>

\* startThreatSSEConnection's onmessage, its conversion alone:
\* rawThreats.map(convertSSEToAttack), handed to onThreat
ThreatDataNormalize(rawThreats) ==
    /\ lastCall = NoCall
    /\ lastCall' = Call("threatData", rawThreats,
                        [i \in 1..Len(rawThreats) |->
                            threatData_convertSSEToAttack(rawThreats[i], <<1, i>>)])
    /\ UNCHANGED <<streamVars, fetchVars, legacyVars, uiVars>>

\* eventSource.onmessage of the attacks worker, whose message is one record:
\* convertSSEToAttack(rawAttack), posted as one ATTACK
AttacksWorkerNormalize(raw) ==
    /\ lastCall = NoCall
    /\ lastCall' = Call("attacksWorker", <<raw>>,
                        <<attacksWorker_convertSSEToAttack(
                              [source |-> "abuse_tracker", data |-> raw], <<1, 1>>)>>)
    /\ UNCHANGED <<streamVars, fetchVars, legacyVars, uiVars>>

\* eventSource.onmessage of DataPage and of CountryAnalytics, the mapping
\* alone: data.map((item) => ({...}))
Views == {"DataPage", "CountryAnalytics"}

PageNormalize(view, rawThreats) ==
    /\ lastCall = NoCall
    /\ lastCall' = Call(view, rawThreats,
                        [i \in 1..Len(rawThreats) |->
                            PageAttack(rawThreats[i], <<1, i>>)])
    /\ UNCHANGED <<streamVars, fetchVars, legacyVars, uiVars>>

\* The upper-case letter of a lower-case ASCII letter of a severity name.
UpperChar(c) ==
    CASE c = "a" -> "A" [] c = "c" -> "C" [] c = "d" -> "D" [] c = "e" -> "E"
      [] c = "g" -> "G" [] c = "h" -> "H" [] c = "i" -> "I" [] c = "l" -> "L"
      [] c = "m" -> "M" [] c = "o" -> "O" [] c = "r" -> "R" [] c = "t" -> "T"
      [] c = "u" -> "U" [] c = "w" -> "W" [] OTHER -> c

RECURSIVE CaseVariants(_)
\* Every spelling of word (lower case) in mixed letter case.
CaseVariants(word) ==
    IF word = "" THEN {""}
    ELSE LET c == SubSeq(word, 1, 1)
         IN  {first \o rest : first \in {c, UpperChar(c)},
                              rest \in CaseVariants(SubSeq(word, 2, Len(word)))}

\* Strings that are no severity name.
OtherSeverityTexts ==
    {"bogus", "info", "severe", "unknown", "UNKNOWN", "criticall", "hig",
     " high", "low ", "med", "5", "0", "none", "Moderate"}

\* The "Severity" values handed to mapSeverity: missing or null ({}), the
\* empty string, the four names in every letter case, and other strings.
SeverityInputs ==
    {{}, {""}}
    \cup {{s} : s \in CaseVariants("critical") \cup CaseVariants("high")
                     \cup CaseVariants("medium") \cup CaseVariants("low")
                     \cup OtherSeverityTexts}

\* mapSeverity(rawThreat["Severity"]) of the threat worker
MapSeverityCall(severity) ==
    /\ lastCall = NoCall
    /\ lastCall' = Call("mapSeverity", severity, mapSeverity(severity))
    /\ UNCHANGED <<streamVars, fetchVars, legacyVars, uiVars>>

\* The "Destination Severity" values handed to the attacks worker's
\* mapSeverity: missing ({}), the codes of the scale, and other strings.
SeverityCodes ==
    {{}} \cup {{s} : s \in {"1", "2", "3", "4", "5", "0", "6", "10", "05", " 3",
                           "-1", "", "high", "constructor", "toString"}}

\* mapSeverity(rawAttack.data["Destination Severity"]) of the attacks worker
AttacksWorkerMapSeverity(severity) ==
    /\ lastCall = NoCall
    /\ lastCall' = Call("attacksWorker.mapSeverity", severity,
                        attacksWorker_mapSeverity(severity))
    /\ UNCHANGED <<streamVars, fetchVars, legacyVars, uiVars>>

\* The "Attack Count" values of threatData's records: missing ({}) or a number.
AttackCounts == {{}} \cup {{n} : n \in (0 - 1)..MaxCount}

\* mapSeverity(rawThreat["Attack Count"]?.toString() || "0") of threatData
ThreatDataMapSeverity(count) ==
    /\ lastCall = NoCall
    /\ lastCall' = Call("threatData.mapSeverity", count,
                        threatData_mapSeverity(CountString(count)))
    /\ UNCHANGED <<streamVars, fetchVars, legacyVars, uiVars>>

---------------------------------------------------------------------------
(* AttackVector.getDirectPath (attacksWorker.ts), in whole degrees *)

Abs(x) == IF x < 0 THEN 0 - x ELSE x

\* Math.max(lo, Math.min(hi, x))
Clamp(lo, hi, x) == IF x > hi THEN hi ELSE IF x < lo THEN lo ELSE x

RECURSIVE normalizeLng(_)
\* while (lng > 180) lng -= 360; while (lng < -180) lng += 360;
normalizeLng(lng) ==
    IF lng > 180 THEN normalizeLng(lng - 360)
    ELSE IF lng < 0 - 180 THEN normalizeLng(lng + 360)
    ELSE lng

MAP_LNG_MIN == 0 - 180

MAP_LNG_MAX == 180

MAP_LAT_MIN == 0 - 85

MAP_LAT_MAX == 85

MaxPathLength == 170    \* pathLength > 170

MaxPathHeight == 160    \* pathHeight > 160

\* return null
NoPath == [from |-> <<>>, to |-> <<>>]

\* toLng after the date-line adjustment, for the clamped longitudes.
DateLineAdjusted(fromLng, toLng) ==
    IF toLng - fromLng > 180 THEN toLng - 360
    ELSE IF toLng - fromLng < 0 - 180 THEN toLng + 360
    ELSE toLng

\* Mutant of getDirectPath: the final bounds check of toLng is left out.
getDirectPathNoBoundsCheck(attack) ==
    LET fromLng == Clamp(MAP_LNG_MIN, MAP_LNG_MAX, normalizeLng(attack.source.longitude))
        toLng0 == Clamp(MAP_LNG_MIN, MAP_LNG_MAX, normalizeLng(attack.target.longitude))
        fromLatClamped == Clamp(MAP_LAT_MIN, MAP_LAT_MAX, attack.source.latitude)
        toLatClamped == Clamp(MAP_LAT_MIN, MAP_LAT_MAX, attack.target.latitude)
        toLng == DateLineAdjusted(fromLng, toLng0)
    IN  IF Abs(toLng - fromLng) > MaxPathLength
           \/ Abs(toLatClamped - fromLatClamped) > MaxPathHeight
        THEN NoPath
        ELSE [from |-> <<fromLng, fromLatClamped>>, to |-> <<toLng, toLatClamped>>]

\* getDirectPath of the AttackVector rendered for attack
getDirectPath(attack) ==
    LET fromLng == Clamp(MAP_LNG_MIN, MAP_LNG_MAX, normalizeLng(attack.source.longitude))
        toLng0 == Clamp(MAP_LNG_MIN, MAP_LNG_MAX, normalizeLng(attack.target.longitude))
        fromLatClamped == Clamp(MAP_LAT_MIN, MAP_LAT_MAX, attack.source.latitude)
        toLatClamped == Clamp(MAP_LAT_MIN, MAP_LAT_MAX, attack.target.latitude)
        toLng == DateLineAdjusted(fromLng, toLng0)
        pathLength == Abs(toLng - fromLng)
        pathHeight == Abs(toLatClamped - fromLatClamped)
    IN  IF toLng < MAP_LNG_MIN \/ toLng > MAP_LNG_MAX THEN NoPath
        ELSE IF pathLength > MaxPathLength \/ pathHeight > MaxPathHeight THEN NoPath
        ELSE [from |-> <<fromLng, fromLatClamped>>, to |-> <<toLng, toLatClamped>>]

\* The longitudes and latitudes of the attacks rendered in this model: the
\* map's bounds and thresholds, their neighbours, values outside the bounds,
\* and the endpoints of the example (40, -100) -> (35, 105).
Longitudes ==
    {0 - 540, 0 - 190, 0 - 180, 0 - 179, 0 - 170, 0 - 100, 0 - 10, 0, 10, 75,
     100, 105, 170, 179, 180, 190, 540}

Latitudes == {0 - 90, 0 - 85, 0 - 80, 0 - 76, 0, 35, 40, 80, 85, 90}

Endpoints == [latitude : Latitudes, longitude : Longitudes]

\* AttackVector rendered for an attack from source to target: getDirectPath()
GetDirectPathCall(source, target) ==
    /\ lastCall = NoCall
    /\ lastCall' = Call("getDirectPath", [source |-> source, target |-> target],
                        getDirectPath([source |-> source, target |-> target]))
    /\ UNCHANGED <<streamVars, fetchVars, legacyVars, uiVars>>

---------------------------------------------------------------------------
(* Specifications *)

Conns == 1..Len(conns)

\* The application: App mounted, the user toggles and selects, the feed
\* sends small messages to the worker's connections.
Next ==
    \/ Mount
    \/ ToggleStream
    \/ \E sel \in SeverityChoices : SetSelectedSeverities(sel)
    \/ DashboardOnWorkerMessage
    \/ WorkerOnControl
    \/ \E c \in Conns : ESOpen(c)
    \/ \E c \in Conns, p \in SmallPayloads : WorkerESMessage(c, p, MaxNetEvents)
    \/ \E c \in Conns, fatal \in BOOLEAN : WorkerESError(c, fatal, MaxNetEvents)

Spec == Init /\ [][Next]_vars

\* The application, the feed sending small messages to the connections of
\* the views.
NextPages ==
    \/ Mount
    \/ ToggleStream
    \/ WorkerOnControl
    \/ \E c \in Conns : ESOpen(c)
    \/ \E c \in Conns, p \in SmallPayloads : DataPageESMessage(c, p, MaxPageEvents)
    \/ \E c \in Conns, p \in SmallPayloads : CountryESMessage(c, p, MaxPageEvents)
    \/ \E c \in Conns, fatal \in BOOLEAN : PageESError(c, fatal, MaxPageEvents)

SpecPages == Init /\ [][NextPages]_vars

\* One worker instance driven by arbitrary control messages.
NextWorker ==
    \/ \E m \in {"START_SSE", "STOP_SSE"} : PostControl(m)
    \/ WorkerOnControl
    \/ \E c \in Conns : ESOpen(c)
    \/ \E c \in Conns, p \in SmallPayloads : WorkerESMessage(c, p, MaxNetEvents)
    \/ \E c \in Conns, fatal \in BOOLEAN : WorkerESError(c, fatal, MaxNetEvents)

SpecWorker == Init /\ [][NextWorker]_vars

\* The application without user input, the feed sending bulk messages to
\* every connection.
NextBulk ==
    \/ Mount
    \/ DashboardOnWorkerMessage
    \/ WorkerOnControl
    \/ \E c \in Conns : ESOpen(c)
    \/ \E c \in Conns, p \in BulkPayloads : WorkerESMessage(c, p, MaxBulkEvents)
    \/ \E c \in Conns, p \in BulkPayloads : DataPageESMessage(c, p, MaxBulkEvents)
    \/ \E c \in Conns, p \in BulkPayloads : CountryESMessage(c, p, MaxBulkEvents)

SpecBulk == Init /\ [][NextBulk]_vars


\* The application with every list fed: the user toggles the stream, the
\* feed sends one kind of message to every connection.
HistoryPayloads ==
    {Payload("array", <<1, 2, 5>>, 3), Payload("array", <<1, 5>>, BulkSmall)}

NextHistory ==
    \/ Mount
    \/ ToggleStream
    \/ DashboardOnWorkerMessage
    \/ WorkerOnControl
    \/ \E c \in Conns : ESOpen(c)
    \/ \E c \in Conns, p \in HistoryPayloads : WorkerESMessage(c, p, MaxHistoryEvents)
    \/ \E c \in Conns, p \in HistoryPayloads : DataPageESMessage(c, p, MaxHistoryEvents)
    \/ \E c \in Conns, p \in HistoryPayloads : CountryESMessage(c, p, MaxHistoryEvents)

SpecHistory == Init /\ [][NextHistory]_vars

\* The malicious-IP fetch: the first render starts the calls of Dashboard and
\* DataPage, a direct caller passes maxRetries, the backend answers.
NextFetch ==
    \/ Mount
    \/ \E maxRetries \in 0..MaxRetriesArg : CallWithRetry(maxRetries)
    \/ \E caller \in AllCallers, answer \in Answers : FetchAttempt(caller, answer)

SpecFetch == Init /\ [][NextFetch]_vars

\* The backend answers every request.
FetchFairness ==
    \A caller \in AllCallers :
        WF_vars(\E answer \in Answers : FetchAttempt(caller, answer))

SpecFetchFair == SpecFetch /\ FetchFairness

LegacyBatches == 1..Len(legacyTimers)

\* The legacy App handling worker messages and running its timers.
NextLegacy ==
    \/ \E p \in LegacyPayloads :
           LegacyOnWorkerMessage(WorkerReply(p, Len(legacyTimers) + 1))
    \/ \E b \in LegacyBatches : LegacyTimerFire(b)

SpecLegacy == Init /\ [][NextLegacy]_vars

\* The normalizers and the severity mapper called on their own inputs.
NextFunctions ==
    \/ \E rawThreats \in CallInputs(Batches) : ThreatWorkerNormalize(rawThreats)
    \/ \E rawThreats \in CallInputs(Batches) : ThreatDataNormalize(rawThreats)
    \/ \E raw \in CallInputs(NormRecords) : AttacksWorkerNormalize(raw)
    \/ \E view \in Views, rawThreats \in CallInputs(Batches) :
           PageNormalize(view, rawThreats)
    \/ \E severity \in CallInputs(SeverityInputs) : MapSeverityCall(severity)
    \/ \E severity \in CallInputs(SeverityCodes) : AttacksWorkerMapSeverity(severity)
    \/ \E count \in CallInputs(AttackCounts) : ThreatDataMapSeverity(count)
    \/ \E source \in CallInputs(Endpoints), target \in CallInputs(Endpoints) :
           GetDirectPathCall(source, target)

SpecFunctions == Init /\ [][NextFunctions]_vars

\* The IP lookups: the malicious IPs arrive, the user clicks IPs on the map
\* and in the table and closes the report, the backend answers the lookups.
Lookups == 1..Len(lookups)

NextAnalysis ==
    \/ Mount
    \/ \E caller \in Callers : FetchAttempt(caller, Answer("ok", RawIPCatalogue))
    \/ \E component \in Callers :
           \E n \in 1..Len(ipState[component]) :
               HandleIPClick(component, ipState[component][n])
    \/ \E k \in Lookups, answer \in AnalysisAnswers : AnalysisResponse(k, answer)
    \/ \E component \in Callers : CloseIPModal(component)

SpecAnalysis == Init /\ [][NextAnalysis]_vars

\* DataPage: the three lists arrive, the user changes tabs and exports.
ExportPayloads == {Payload("array", <<1, 2>>, 2), Payload("object", <<1>>, 0)}

NextExport ==
    \/ Mount
    \/ \E answer \in {Answer("ok", <<>>), Answer("ok", RawIPCatalogue)} :
           FetchAttempt("DataPage", answer)
    \/ \E c \in Conns : ESOpen(c)
    \/ \E c \in Conns, p \in ExportPayloads : DataPageESMessage(c, p, MaxExportEvents)
    \/ \E answer \in NewsAnswers : NewsResponse(answer)
    \/ \E tab \in Tabs : SetActiveTab(tab)
    \/ \E linkDownload \in BOOLEAN : DownloadClick(linkDownload)

SpecExport == Init /\ [][NextExport]_vars

\* The fetches of the Dashboard's first render: the malicious IPs arrive,
\* the briefing of its BriefingCard arrives and is refreshed.
BriefingFetches == 1..Len(briefingFetches)

NextBriefing ==
    \/ Mount
    \/ \E answer \in Answers : FetchAttempt("Dashboard", answer)
    \/ RefreshBriefing
    \/ \E k \in BriefingFetches, answer \in BriefingAnswers : BriefingResponse(k, answer)

SpecBriefing == Init /\ [][NextBriefing]_vars

---------------------------------------------------------------------------
(* Claims *)

OpenConnsOf(owner) == {c \in ConnsOf(owner) : conns[c].state = "open"}

\* C1: after any sequence of start and stop control messages delivered to
\* one worker instance, the worker holds at most one open event-stream
\* connection.  (Checked under SpecWorker.)
C1_AtMostOneOpenConnection == Cardinality(OpenConnsOf("worker")) <= 1

\* C2: once the stream is paused the Dashboard's two attack lists do not
\* grow until it is resumed: no step taken while the pause flag is set makes
\* currentAttacks or attackDetails longer.
C2_NoGrowthWhilePaused ==
    [][(isStreamPaused /\ isStreamPaused')
        => /\ Len(currentAttacks') <= Len(currentAttacks)
           /\ Len(attackDetails') <= Len(attackDetails)]_vars

\* An endpoint whose geolocation is unresolved: code "UNK" or coordinates (0,0).
Unresolved(country) ==
    \/ country.code = "UNK"
    \/ (country.latitude = 0 /\ country.longitude = 0)

NoUnresolved(list) ==
    \A i \in 1..Len(list) : ~Unresolved(list[i].source) /\ ~Unresolved(list[i].target)

\* C3: neither currentAttacks nor attackDetails ever holds an attack whose
\* source or target has country code "UNK" or coordinates (0,0).
C3_DashboardListsResolved == NoUnresolved(currentAttacks) /\ NoUnresolved(attackDetails)

\* C3 witness: the Dashboard handled a batch whose first record it dropped
\* and whose second record it kept.
C3_Witness ==
    \E i \in 1..Len(attackDetails) :
        /\ attackDetails[i].id[2] = 2
        /\ \A j \in 1..Len(attackDetails) :
               attackDetails[j].id # <<attackDetails[i].id[1], 1>>
        /\ \E k \in 1..Len(currentAttacks) : currentAttacks[k] = attackDetails[i]

C5_ListsBounded ==
    /\ Len(currentAttacks) <= 30
    /\ Len(attackDetails) <= 500
    /\ Len(dataThreats) <= 1000
    /\ Len(caThreats) <= 5000

\* C5 witness: every list is at its cap after more elements arrived than it
\* can hold.
C5_Witness ==
    /\ Len(currentAttacks) = 30
    /\ Len(attackDetails) = 500
    /\ Len(accepted) > 500
    /\ Len(dataThreats) = 1000
    /\ Len(caThreats) = 5000

\* list is the last Min(cap, n) elements of log, in the order of log.
IsLastOf(list, log, cap) ==
    /\ Len(list) = Min(cap, Len(log))
    /\ \A i \in 1..Len(list) : list[i] = log[Len(log) - Len(list) + i]

\* C6: with n attacks accepted so far, currentAttacks is exactly the last
\* min(30, n) of them and attackDetails the last min(500, n), in arrival
\* order.  (Checked under SpecBulk.)
C6_ListsAreLastAccepted ==
    /\ IsLastOf(currentAttacks, accepted, 30)
    /\ IsLastOf(attackDetails, accepted, 500)

\* C6 witness: attacks of two batches were accepted, and both lists have
\* evicted their oldest elements.
C6_Witness ==
    /\ Len(accepted) > 500
    /\ accepted[1].id[1] # accepted[Len(accepted)].id[1]
    /\ currentAttacks # <<>>
    /\ currentAttacks[1] # accepted[1]
    /\ attackDetails[1] # accepted[1]

\* The step delivers a network event to the worker.
WorkerNetStep == lastNet'.seq # lastNet.seq

\* C7: on a connection error the worker posts an ERROR message and closes
\* that connection, and a connection of the worker comes to life only when
\* the worker handles a start message (no automatic reconnect).
C7_ErrorClosesNoReconnect ==
    [][/\ (WorkerNetStep /\ lastNet'.kind = "error")
           => /\ uiQueue' = Append(uiQueue, ErrorMsg("SSE Error", lastNet'.seq))
              /\ conns'[lastNet'.conn].state = "closed"
       /\ \A c \in 1..Len(conns) :
              (conns[c].owner = "worker" /\ conns[c].state = "closed")
              => conns'[c].state = "closed"
       /\ (Len(conns') > Len(conns) /\ conns'[Len(conns')].owner = "worker")
              => (ctrlQueue # <<>> /\ Head(ctrlQueue) = "START_SSE"
                  /\ ctrlQueue' = Tail(ctrlQueue))]_vars

\* C7 witness: an error was raised on an open connection of the worker, which
\* is now closed, with the ERROR message posted.
C7_Witness ==
    /\ lastNet.kind = "error"
    /\ conns[lastNet.conn].state = "closed"
    /\ uiQueue # <<>>
    /\ uiQueue[Len(uiQueue)] = ErrorMsg("SSE Error", lastNet.seq)
    /\ \E n \in 1..Len(uiQueue) : uiQueue[n].type = "THREATS"

\* C8: a message that fails to decode makes the worker post one ERROR
\* message for that message only and leaves the connection open; a
\* well-formed message, whatever came before it, is normalised record by
\* record and posted as one THREATS batch.
C8_DecodeErrorIsPerMessage ==
    [][(WorkerNetStep /\ lastNet'.kind = "message")
        => LET p == lastNet'.payload
               seq == lastNet'.seq
               posted == uiQueue'[Len(uiQueue')]
           IN  /\ conns' = conns
               /\ conns'[lastNet'.conn].state = "open"
               /\ Len(uiQueue') = Len(uiQueue) + 1
               /\ SubSeq(uiQueue', 1, Len(uiQueue)) = uiQueue
               /\ IF p.kind \in {"malformed", "object"}
                  THEN posted = ErrorMsg("Error parsing SSE data", seq)
                  ELSE /\ posted.type = "THREATS"
                       /\ Len(posted.data) = p.n
                       /\ \A i \in 1..p.n :
                              posted.data[i] =
                                  convertSSEToAttack(RawItems(p)[i], <<seq, i>>)]_vars

\* C8 witness: on the worker's only connection, still open, a message that
\* failed to decode was followed by a well-formed one; both answers wait in
\* the queue.
C8_Witness ==
    /\ Len(uiQueue) = 2
    /\ uiQueue[1].error = "Error parsing SSE data"
    /\ uiQueue[2].type = "THREATS"
    /\ uiQueue[2].data # <<>>
    /\ Cardinality(ConnsOf("worker")) = 1
    /\ OpenConnsOf("worker") # {}

\* Attack ids are (number of the network message, position in its array).
IdLess(a, b) == a[1] < b[1] \/ (a[1] = b[1] /\ a[2] < b[2])

InArrivalOrder(list) ==
    \A i \in 1..(Len(list) - 1) : IdLess(list[i].id, list[i + 1].id)

\* C9: batches are posted to the UI thread in the order the worker received
\* the messages, each batch in the order of its records, and the Dashboard
\* appends accepted attacks in that order.
C9_OrderPreserved ==
    /\ \A n \in 1..(Len(uiQueue) - 1) : uiQueue[n].seq < uiQueue[n + 1].seq
    /\ \A n \in 1..Len(uiQueue) :
           \A i \in 1..Len(uiQueue[n].data) :
               uiQueue[n].data[i].id = <<uiQueue[n].seq, i>>
    /\ InArrivalOrder(currentAttacks)
    /\ InArrivalOrder(attackDetails)
    /\ \A n \in 1..Len(uiQueue), i \in 1..Len(attackDetails) :
           attackDetails[i].id[1] < uiQueue[n].seq

\* C9 witness: the history holds two attacks of one batch and attacks of two
\* batches.
C9_Witness ==
    /\ \E i \in 1..(Len(attackDetails) - 1) :
           attackDetails[i].id[1] = attackDetails[i + 1].id[1]
    /\ \E i \in 1..(Len(attackDetails) - 1) :
           attackDetails[i].id[1] # attackDetails[i + 1].id[1]

\* C10: every open connection to the threats endpoint is held by the
\* worker; no UI-thread component holds one of its own.
C10_WorkerOwnsEveryConnection ==
    \A c \in Conns : conns[c].state = "open" => conns[c].owner = "worker"

\* The step is the worker handling a start message.
HandlesStart ==
    ctrlQueue # <<>> /\ Head(ctrlQueue) = "START_SSE" /\ ctrlQueue' = Tail(ctrlQueue)

\* C11: a start message handled by the worker, also after a stop message,
\* opens a new connection in the same worker instance, on which batches are
\* delivered again; the Dashboard constructs one Worker at most, however
\* often the stream is paused and resumed.
C11_WorkerRestartable ==
    /\ [][HandlesStart
           => /\ conns' = Append(conns, [owner |-> "worker", state |-> "connecting"])
              /\ workerEventSource' = Len(conns')]_vars
    /\ [](workersCreated <= 1)
    /\ [](threatWorker <=> workersCreated = 1)

\* C11 witness: after a pause and a resume (the DataPage holds its second
\* connection) the one worker received a message on a connection opened
\* after an earlier one was closed, and the Dashboard accepted its attacks.
C11_Witness ==
    /\ workersCreated = 1
    /\ ~isStreamPaused
    /\ \E c \in ConnsOf("data") : conns[c].state = "closed"
    /\ dataES # 0
    /\ lastNet.kind = "message"
    /\ conns[lastNet.conn].owner = "worker"
    /\ \E c \in ConnsOf("worker") : c < lastNet.conn /\ conns[c].state = "closed"
    /\ accepted # <<>>
    /\ accepted[Len(accepted)].id[1] = lastNet.seq

\* Every element of old is an element of new.
Holds(new, old) == \A i \in 1..Len(old) : \E j \in 1..Len(new) : new[j] = old[i]

\* C12: pausing and resuming never clears history: no toggle of the pause
\* flag removes an element from the Dashboard's attack lists, the DataPage's
\* threats or the CountryAnalytics threats, and each list after the resume
\* still holds what it held at the pause.  (Checked under SpecHistory.)
C12_HistoryKeptAcrossPause ==
    [][/\ isStreamPaused' # isStreamPaused
           => /\ currentAttacks' = currentAttacks
              /\ attackDetails' = attackDetails
              /\ dataThreats' = dataThreats
              /\ caThreats' = caThreats
       /\ (isStreamPaused /\ ~isStreamPaused')
           => /\ Holds(currentAttacks', atPause.currentAttacks)
              /\ Holds(attackDetails', atPause.attackDetails)
              /\ Holds(dataThreats', atPause.dataThreats)
              /\ Holds(caThreats', atPause.caThreats)]_vars

\* The part of C12 about the toggles themselves: the step that pauses and
\* the step that resumes leave the four lists as they were, and the lists of
\* the DataPage and of CountryAnalytics are at the resume what they were at
\* the pause.
ToggleKeepsLists ==
    [][/\ isStreamPaused' # isStreamPaused
           => /\ currentAttacks' = currentAttacks
              /\ attackDetails' = attackDetails
              /\ dataThreats' = dataThreats
              /\ caThreats' = caThreats
       /\ (isStreamPaused /\ ~isStreamPaused')
           => /\ dataThreats' = atPause.dataThreats
              /\ caThreats' = atPause.caThreats]_vars

\* The attempts of a call, in order.
AttemptsOf(call) == SelectSeq(call.log, LAMBDA event : event.ev = "attempt")

Completed(call) == call.pc \in {"resolved", "rejected"}

\* C13: a call of fetchMaliciousIPsWithRetry makes at most maxRetries
\* attempts; an attempt that yields a non-empty list is the last one and the
\* call resolves with that list; and every call completes, whatever the
\* backend answers.  (Checked under SpecFetchFair: the backend answers every
\* request.)
C13_BoundedAttemptsAndCompletion ==
    /\ [](\A caller \in AllCallers :
              LET call == fetchCall[caller]
                  attempts == AttemptsOf(call)
              IN  /\ Len(attempts) <= call.maxRetries
                  /\ \A k \in 1..Len(attempts) :
                         attempts[k].n > 0
                         => /\ k = Len(attempts)
                            /\ call.pc = "resolved"
                            /\ Len(call.result) = attempts[k].n)
    /\ \A caller \in AllCallers :
           (fetchCall[caller].pc = "attempt") ~> Completed(fetchCall[caller])

\* C13 witness: the Dashboard's call returned a non-empty list at its second
\* attempt, and the DataPage's call ended after three attempts that yielded
\* nothing.
C13_Witness ==
    /\ fetchCall["Dashboard"].pc = "resolved"
    /\ Len(AttemptsOf(fetchCall["Dashboard"])) = 2
    /\ Len(fetchCall["Dashboard"].result) = 2
    /\ ipState["Dashboard"] = fetchCall["Dashboard"].result
    /\ Completed(fetchCall["DataPage"])
    /\ Len(AttemptsOf(fetchCall["DataPage"])) = DefaultMaxRetries
    /\ fetchCall["direct"].pc = "resolved"
    /\ fetchCall["direct"].maxRetries = 0

\* An attempt that failed: a network failure or a non-2xx response.
FailedAttempt(event) ==
    event.ev = "attempt" /\ event.answer \in {"network", "non2xx"}

\* C14: in fetchMaliciousIPsWithRetry every failed attempt that is not the
\* last one is followed by the delay before the next attempt starts.
C14_DelayBetweenAttempts ==
    \A caller \in AllCallers :
        LET log == fetchCall[caller].log
        IN  \A k \in 1..(Len(log) - 1) :
                FailedAttempt(log[k]) => log[k + 1].ev = "delay"

\* C15: when every attempt of a call failed, the call is rejected with the
\* last error, and the caller's catch block runs and leaves its malicious-IP
\* state as it was.
C15_ExhaustionPropagates ==
    \A caller \in Callers :
        LET call == fetchCall[caller]
        IN  (/\ Completed(call)
             /\ Len(call.log) > 0
             /\ \A k \in 1..Len(call.log) :
                    call.log[k].ev = "attempt" => FailedAttempt(call.log[k]))
            => /\ call.pc = "rejected"
               /\ call.caught
               /\ ipState[caller] = <<>>


\* A stream message that is an empty array.
Heartbeat(p) == p.kind = "literal" \/ (p.kind = "array" /\ p.n = 0)

\* C16: for an empty-array stream message the worker posts a THREATS batch
\* with no attacks and no ERROR message, and the Dashboard's handling of a
\* batch with no attacks leaves currentAttacks and attackDetails unchanged.
C16_HeartbeatIsNotAnError ==
    [][/\ (WorkerNetStep /\ lastNet'.kind = "message" /\ Heartbeat(lastNet'.payload))
           => uiQueue' = Append(uiQueue, ThreatsMsg(<<>>, lastNet'.seq))
       /\ (/\ uiQueue # <<>>
           /\ uiQueue' = Tail(uiQueue)
           /\ Head(uiQueue).type = "THREATS"
           /\ Head(uiQueue).data = <<>>)
           => /\ currentAttacks' = currentAttacks
              /\ attackDetails' = attackDetails]_vars

\* C16 witness: the Dashboard, its lists holding attacks, has handled the
\* batch the worker posted for an empty-array message.
C16_Witness ==
    /\ lastNet.kind = "message"
    /\ Heartbeat(lastNet.payload)
    /\ lastNet.seq = 2
    /\ threatWorker
    /\ uiQueue = <<>>
    /\ currentAttacks # <<>>
    /\ attackDetails # <<>>

\* C17: neither the DataPage's threats nor the CountryAnalytics threats ever
\* hold an attack whose source or target has country code "UNK" or
\* coordinates (0,0).  (Checked under SpecPages.)
C17_PageListsResolved == NoUnresolved(dataThreats) /\ NoUnresolved(caThreats)

\* C18: the lengths of the legacy App's currentAttacks and attackDetails
\* never exceed a fixed cap (the Dashboard's caps, 30 and 500).
\* (Checked under SpecLegacy.)
C18_LegacyListsBounded ==
    /\ Len(legacyCurrentAttacks) <= DashboardMapCap
    /\ Len(legacyAttackDetails) <= DashboardHistoryCap


\* Every source-country field of the raw record is missing or null.
SourceMissing(raw) ==
    raw.srcCode = {} /\ raw.srcName = {} /\ raw.srcLat = {} /\ raw.srcLng = {}

Normalizers == {"threatWorker", "threatData", "attacksWorker"}

\* C19: each normalizer (threatWorker, threatData, attacksWorker) turns n raw
\* records into n Attacks in the same order, and a record whose
\* source-country fields are all missing or null into an Attack whose source
\* is code "UNK", name "Unknown", coordinates (0,0).
\* (Checked under SpecFunctions.)
C19_MissingSourceIsUnknown ==
    lastCall.fn \in Normalizers
    => /\ Len(lastCall.out) = Len(lastCall.in)
       /\ \A i \in 1..Len(lastCall.in) :
              /\ lastCall.out[i].id = <<1, i>>
              /\ SourceMissing(lastCall.in[i])
                 => lastCall.out[i].source = Country("UNK", "Unknown", 0, 0)
              /\ lastCall.in[i].srcCode = {"US"}
                 => lastCall.out[i].source.code = "US"
              /\ lastCall.in[i].srcLat = {40}
                 => lastCall.out[i].source.latitude = 40

\* C19 witness: a batch of a record with its source fields missing followed
\* by a fully resolved record went through the threatData normalizer.
C19_Witness ==
    /\ lastCall.fn = "threatData"
    /\ Len(lastCall.in) = 2
    /\ SourceMissing(lastCall.in[1])
    /\ lastCall.in[2].srcCode = {"US"}
    /\ lastCall.in[2].srcLat = {40}
    /\ lastCall.out[1].source.code = "UNK"
    /\ lastCall.out[2].source.code = "US"

\* C20: the threat worker's mapSeverity maps "critical", "high", "medium"
\* and "low" in any letter case to CRITICAL, HIGH, MEDIUM and LOW, and every
\* other string, the empty string and a missing severity to UNKNOWN.
\* (Checked under SpecFunctions.)
C20_NamedSeverityAnyCase ==
    lastCall.fn = "mapSeverity"
    => lastCall.out =
           (IF lastCall.in \in {{s} : s \in CaseVariants("critical")} THEN "CRITICAL"
            ELSE IF lastCall.in \in {{s} : s \in CaseVariants("high")} THEN "HIGH"
            ELSE IF lastCall.in \in {{s} : s \in CaseVariants("medium")} THEN "MEDIUM"
            ELSE IF lastCall.in \in {{s} : s \in CaseVariants("low")} THEN "LOW"
            ELSE "UNKNOWN")

\* C20 witness: a name in mixed letter case was mapped to its severity.
C20_Witness ==
    /\ lastCall.fn = "mapSeverity"
    /\ lastCall.in = {"cRiTiCaL"}
    /\ lastCall.out = "CRITICAL"


\* The numeric scale: "1", "2", "3", "4", "5".
ScaleSeverity(code) ==
    CASE code \in {"1", "2"} -> "LOW"
      [] code = "3" -> "MEDIUM"
      [] code = "4" -> "HIGH"
      [] code = "5" -> "CRITICAL"

OnScale(code) == code \in {"1", "2", "3", "4", "5"}

\* The code the threatData mapper is given for an Attack Count.
CodeOfCount(count) ==
    IF count = {} THEN "0"
    ELSE CASE count = {1} -> "1" [] count = {2} -> "2" [] count = {3} -> "3"
           [] count = {4} -> "4" [] count = {5} -> "5" [] OTHER -> "other"

\* C21: both numeric severity mappers map the codes "1".."5" to LOW, LOW,
\* MEDIUM, HIGH, CRITICAL; for every other code the attacksWorker mapper
\* returns LOW and the threatData mapper (whose code is the record's Attack
\* Count, "0" when missing) returns UNKNOWN.  (Checked under SpecFunctions.)
C21_NumericSeverityMappers ==
    /\ lastCall.fn = "attacksWorker.mapSeverity"
       => lastCall.out =
              (IF \E code \in lastCall.in : OnScale(code)
               THEN ScaleSeverity(CHOOSE code \in lastCall.in : TRUE)
               ELSE "LOW")
    /\ lastCall.fn = "threatData.mapSeverity"
       => lastCall.out =
              (IF OnScale(CodeOfCount(lastCall.in))
               THEN ScaleSeverity(CodeOfCount(lastCall.in))
               ELSE "UNKNOWN")

\* The part of C21 about numeric codes: the same, for the codes that are
\* not names of properties of Object.prototype.
NumericCodesMapped ==
    \/ /\ lastCall.fn = "attacksWorker.mapSeverity"
       /\ \E code \in lastCall.in : code \in ObjectPrototypeKeys
    \/ C21_NumericSeverityMappers


\* C22: getDirectPath either returns no path or a path whose endpoint
\* longitudes lie in [-180,180] and whose endpoint latitudes lie in [-85,85],
\* with a longitude span of at most 170 and a latitude span of at most 160
\* (it returns no path whenever a span of the adjusted endpoints is greater).
\* (Checked under SpecFunctions.)
C22_PathWithinBounds ==
    (lastCall.fn = "getDirectPath" /\ lastCall.out # NoPath)
    => LET from == lastCall.out.from
           to == lastCall.out.to
       IN  /\ from[1] >= 0 - 180 /\ from[1] <= 180
           /\ to[1] >= 0 - 180 /\ to[1] <= 180
           /\ from[2] >= 0 - 85 /\ from[2] <= 85
           /\ to[2] >= 0 - 85 /\ to[2] <= 85
           /\ Abs(to[1] - from[1]) <= 170
           /\ Abs(to[2] - from[2]) <= 160

\* C22 witness: a path was returned for a source given outside the map's
\* bounds (longitude 190, latitude 90).
C22_Witness ==
    /\ lastCall.fn = "getDirectPath"
    /\ lastCall.in.source = [latitude |-> 90, longitude |-> 190]
    /\ lastCall.out # NoPath
    /\ lastCall.out.from = <<0 - 170, 85>>

\* The shortest path between two longitudes of [-180,180] crosses the
\* antimeridian, and is at most 170 degrees long.
CrossesAntimeridian(fromLng, toLng) ==
    /\ fromLng >= 0 - 180 /\ fromLng <= 180
    /\ toLng >= 0 - 180 /\ toLng <= 180
    /\ Abs(toLng - fromLng) > 180
    /\ 360 - Abs(toLng - fromLng) <= 170

\* C23: an attack whose shortest path crosses the antimeridian with a span
\* of at most 170 degrees of longitude, as (40, -100) -> (35, 105), is
\* accepted: getDirectPath moves the target longitude by 360 degrees and
\* returns a path.  (Checked under SpecFunctions.)
C23_AntimeridianPathAccepted ==
    (/\ lastCall.fn = "getDirectPath"
     /\ CrossesAntimeridian(lastCall.in.source.longitude, lastCall.in.target.longitude)
     /\ Abs(Clamp(0 - 85, 85, lastCall.in.target.latitude)
            - Clamp(0 - 85, 85, lastCall.in.source.latitude)) <= 160)
    => /\ lastCall.out # NoPath
       /\ Abs(lastCall.out.to[1] - lastCall.in.target.longitude) = 360


\* The lookups that failed: the request was rejected, or answered with a
\* non-2xx status or with a body that is not JSON.
FailedAnswers == AnalysisAnswers \ {"ok"}

\* Lookup k is answered in this step.
Answered(k) == lookups[k].answer = "pending" /\ lookups'[k].answer # "pending"

\* C24: when the answer to an IP lookup is a failure, the step that handles
\* it leaves a non-null analysisError and isAnalyzing false in the component
\* that sent it; every call of handleIPClick sends exactly one request and no
\* other step sends one.  (Checked under SpecAnalysis.)
C24_FailedLookupSurfaces ==
    [][/\ \A k \in 1..Len(lookups) :
              (Answered(k) /\ lookups'[k].answer \in FailedAnswers)
              => /\ analysis'[lookups[k].component].analysisError # {}
                 /\ ~analysis'[lookups[k].component].isAnalyzing
       /\ Len(lookups') - Len(lookups) = ipClicks' - ipClicks
       /\ Len(lookups') - Len(lookups) \in {0, 1}]_vars

\* C24 witness: one click, one request, answered with a non-2xx status and
\* no error text: the error is "Analysis failed", the flag is cleared.
C24_Witness ==
    /\ ipClicks = 1
    /\ Len(lookups) = 1
    /\ lookups[1].answer = "errorEmpty"
    /\ analysis[lookups[1].component].analysisError = {"Analysis failed"}
    /\ ~analysis[lookups[1].component].isAnalyzing


\* The lookups a component has sent, and the last of them.
LookupsOf(component) == {k \in 1..Len(lookups) : lookups[k].component = component}

LatestLookup(component) ==
    CHOOSE k \in LookupsOf(component) : \A j \in LookupsOf(component) : j <= k

\* The lookup whose outcome IPDetailsModal shows once it is not loading: the
\* error if there is one, the data otherwise.
ShownLookup(component) ==
    IF analysis[component].analysisError # {}
    THEN analysisFrom[component].error
    ELSE analysisFrom[component].data

EmptyExport ==
    /\ Len(exportLog') = Len(exportLog) + 1
    /\ exportLog'[Len(exportLog')].rows = 0

\* C25: a click on "Download CSV" whose list is empty produces no file and
\* changes no state of the application, whichever tab is active.  (Checked
\* under SpecExport.)
C25_EmptyExportIsNoOp ==
    [][EmptyExport
       => /\ downloads' = downloads
          /\ UNCHANGED <<streamVars, fetchVars, legacyVars, lastCall,
                         analysisVars, activeTab, news, newsFetch,
                         briefingVars>>]_vars

\* C25 witness: an empty list was exported from each of the three tabs and
\* there is no file.
C25_Witness ==
    /\ \A tab \in Tabs :
           \E i \in 1..Len(exportLog) :
               exportLog[i].tab = tab /\ exportLog[i].rows = 0
    /\ downloads = <<>>

\* Briefing fetch k completes in this step.
BriefingCompleted(k) ==
    briefingFetches[k] = "pending" /\ briefingFetches'[k] # "pending"

\* C30: once BriefingCard's error is set no step changes it, the card
\* renders nothing and no further briefing fetch is started; and the step
\* that completes a fetch, with success or failure, leaves loading false.
\* (Checked under SpecBriefing.)
C30_ErrorIsAbsorbing ==
    [][/\ briefingError # {}
          => /\ briefingError' = briefingError
             /\ ~BriefingCardRenders(briefingError')
             /\ Len(briefingFetches') = Len(briefingFetches)
       /\ \A k \in 1..Len(briefingFetches) :
              BriefingCompleted(k) => ~briefingLoading']_vars

\* C30 witness: a briefing was loaded, the refresh failed: the error is set,
\* loading is false, and the fetch that failed is the last one.
C30_Witness ==
    /\ briefing # {}
    /\ briefingError = {"Connection failed"}
    /\ ~briefingLoading
    /\ Len(briefingFetches) = 2
    /\ briefingFetches[2] = "network"

\* C26: the control messages the Dashboard has posted never hold two
\* START_SSE in a row, and the worker the Dashboard drives never has two
\* connections that are not closed.  (Checked under Spec.)
C26_StartsAlternateWithStops ==
    /\ \A i \in 1..(Len(controlLog) - 1) :
           ~(controlLog[i] = "START_SSE" /\ controlLog[i + 1] = "START_SSE")
    /\ Cardinality({c \in ConnsOf("worker") : conns[c].state # "closed"}) <= 1

\* C26 witness: the Dashboard started the stream three times (mount, a
\* selection change, another one or a pause and resume), the worker has
\* handled every message and holds one connection that is not closed.
C26_Witness ==
    /\ Cardinality({i \in 1..Len(controlLog) : controlLog[i] = "START_SSE"}) = 3
    /\ ctrlQueue = <<>>
    /\ Cardinality(ConnsOf("worker")) = 3
    /\ Cardinality({c \in ConnsOf("worker") : conns[c].state # "closed"}) = 1

AllCoordinatesNonZero(attack) ==
    /\ attack.source.latitude # 0
    /\ attack.source.longitude # 0
    /\ attack.target.latitude # 0
    /\ attack.target.longitude # 0

\* C28: every attack the Dashboard admitted, and so every attack of
\* currentAttacks and attackDetails, has four non-zero coordinates: an attack
\* with one zero coordinate (latitude 0, longitude 37) is in neither list.
C28_AdmittedHaveFourCoordinates ==
    /\ \A i \in 1..Len(accepted) : AllCoordinatesNonZero(accepted[i])
    /\ \A i \in 1..Len(currentAttacks) : AllCoordinatesNonZero(currentAttacks[i])
    /\ \A i \in 1..Len(attackDetails) : AllCoordinatesNonZero(attackDetails[i])

\* C28 witness: the Dashboard handled a batch that began with the attack
\* from Kenya (latitude 0, longitude 37, severity CRITICAL, selected) and
\* kept the second attack of the batch, from Russia, but not the first.
C28_Witness ==
    /\ "CRITICAL" \in handlerSeverities
    /\ \E i \in 1..Len(attackDetails) :
           /\ attackDetails[i].id[2] = 2
           /\ attackDetails[i].source.code = "RU"
           /\ \A j \in 1..Len(accepted) :
                  accepted[j].id # <<attackDetails[i].id[1], 1>>

\* C29: for every raw record the mapping of DataPage and of
\* CountryAnalytics gives the source, target, attack types and severity that
\* the threat worker's convertSSEToAttack gives.  (Checked under
\* SpecFunctions.)
C29_ViewsNormalizeAsWorker ==
    lastCall.fn \in Views
    => /\ Len(lastCall.out) = Len(lastCall.in)
       /\ \A i \in 1..Len(lastCall.in) :
              LET mine == lastCall.out[i]
                  workers == convertSSEToAttack(lastCall.in[i], <<1, i>>)
              IN  /\ mine.source = workers.source
                  /\ mine.target = workers.target
                  /\ mine.type = workers.type
                  /\ mine.severity = workers.severity

============================================================================
